---------------------------- MODULE Spec2Model ----------------------------
(***************************************************************************)
(* Verification model of the ranking support core:                         *)
(*   - XGBoostRanker (core/xgboost_ranker.py): model lifecycle, the        *)
(*     process-wide model cache, feature extraction, prediction, rerank.   *)
(*   - ResultsCache (core/results_cache.py): the lock-protected TTL cache. *)
(*   - MMRReranker (core/mmr.py): intent detection and greedy selection.   *)
(* Rational numbers are pairs <<numerator, denominator>> in lowest terms.  *)
(***************************************************************************)
EXTENDS Integers, Naturals, Sequences, FiniteSets, TLC

(***************************************************************************)
(* Bounds of the model                                                     *)
(***************************************************************************)
MaxDocs == 2
\* the configured ttl_seconds of the cache under test, in clock ticks
ttl_seconds == 1
\* the clock runs one tick past the ttl, enough for an entry to expire
MaxTime == ttl_seconds + 1
\* the longest document list given to MMRReranker.rerank, and the largest top_k
MaxCands == 4
MaxTopK == 6

(***************************************************************************)
(* Program constants                                                       *)
(***************************************************************************)
TOTAL_FEATURES_PHASE_A == 29
FEATURE_IDX_LLM_FINAL_SCORE == 23
MISSING_RECENCY_DAYS == 999999

None == "None"

(***************************************************************************)
(* Rational arithmetic                                                     *)
(***************************************************************************)
Abs(x) == IF x < 0 THEN -x ELSE x

RECURSIVE GCD(_, _)
GCD(a, b) == IF b = 0 THEN a ELSE GCD(b, a % b)

\* n/d in lowest terms, d > 0
Frac(n, d) ==
    LET g == GCD(Abs(n), Abs(d))
        s == IF d < 0 THEN -1 ELSE 1
    IN  <<(s * n) \div g, (s * d) \div g>>

FInt(n) == <<n, 1>>
FAdd(a, b) == Frac(a[1] * b[2] + b[1] * a[2], a[2] * b[2])
FDiv(a, b) == Frac(a[1] * b[2], a[2] * b[1])
FLess(a, b) == a[1] * b[2] < b[1] * a[2]
FLeq(a, b) == a[1] * b[2] <= b[1] * a[2]
FZero == <<0, 1>>
FOne == <<1, 1>>
FHalf == <<1, 2>>

RECURSIVE FSum(_)
FSum(s) == IF s = <<>> THEN FZero ELSE FAdd(Head(s), FSum(Tail(s)))

\* numpy.mean of a non-empty array
FMean(s) == FDiv(FSum(s), FInt(Len(s)))

RECURSIVE FMax(_)
FMax(s) == IF Len(s) = 1 THEN Head(s)
           ELSE LET m == FMax(Tail(s)) IN IF FLess(Head(s), m) THEN m ELSE Head(s)

(***************************************************************************)
(* Optional values: <<>> is Python's None, <<v>> a present value.          *)
(* Texts are strings of words separated by single blanks, kept as the      *)
(* sequence of their words; <<>> is the empty string.                      *)
(***************************************************************************)
NoneV == <<>>
Some(v) == <<v>>
IsNone(o) == o = <<>>
Val(o) == o[1]

Vocab == {"how", "ai", "5"}
QuestionWords == {"how"}
QuoteWords == {}
DigitWords == {"5"}
WordLen(w) == CASE w = "how" -> 3 [] w = "ai" -> 2 [] OTHER -> 1

RECURSIVE TextLen(_)
\* len(text): the characters of the words and the blanks between them
TextLen(t) == IF t = <<>> THEN 0
              ELSE IF Len(t) = 1 THEN WordLen(t[1])
              ELSE WordLen(t[1]) + 1 + TextLen(Tail(t))

Words(t) == {t[i] : i \in 1..Len(t)}

\* Python's `sub in text` for texts over Vocab (no word contains another)
IsSubstring(sub, t) ==
    \E k \in 0..(Len(t) - Len(sub)) :
        \A j \in 1..Len(sub) : t[k + j] = sub[j]

UrlLen(u) == IF u = "" THEN 0 ELSE 2

(***************************************************************************)
(* Ranked documents as rerank receives them: dicts from ranking.py or      *)
(* RankingResult-like objects.                                             *)
(***************************************************************************)
MkDoc(kind, url, score, title, descr, date, author, qid, ok) ==
    [kind |-> kind, url |-> url, score |-> score, title |-> title,
     description |-> descr, published_date |-> date, author |-> author,
     query_id |-> qid, schema_ok |-> ok, retrieval_position |-> NoneV,
     retrieval_scores |-> [vector_score |-> 0, bm25_score |-> 0, keyword_boost |-> 0,
                           temporal_boost |-> 0, final_retrieval_score |-> 0],
     mmr_score |-> NoneV, detected_intent |-> "BALANCED",
     xgboost_score |-> NoneV, xgboost_confidence |-> NoneV]

DocPool ==
    { MkDoc("obj",  "u1", Some(2), Some(<<"ai">>), Some(<<"how", "ai">>), "d1", "bob", "q7", TRUE),
      MkDoc("obj",  "u2", Some(1), Some(<<"how", "ai">>), Some(<<>>), "bad", "", "q7", TRUE),
      MkDoc("dict", "u3", Some(2), Some(<<>>), Some(<<"5">>), None, None, "q7", TRUE),
      MkDoc("dict", "u4", Some(0), Some(<<"5">>), Some(<<"ai">>), "", "bob", None, TRUE),
      MkDoc("dict", "u5", Some(1), Some(<<"ai">>), NoneV, "d0", None, "q7", TRUE),
      MkDoc("dict", "u6", Some(1), Some(<<"ai">>), Some(<<"ai">>), "d0", None, "q7", FALSE),
      MkDoc("obj",  "u7", NoneV, Some(<<"ai">>), Some(<<"ai">>), "d0", "bob", None, TRUE) }

RECURSIVE SeqsUpTo(_, _)
SeqsUpTo(S, n) ==
    IF n = 0 THEN {<<>>}
    ELSE LET P == SeqsUpTo(S, n - 1)
         IN  P \cup {Append(p, x) : p \in {q \in P : Len(q) = n - 1}, x \in S}

\* url is unique within one ranked list (data model invariant of RankedDocument)
UniqueUrls(docs) ==
    \A i, j \in 1..Len(docs) : docs[i].url = docs[j].url => i = j

DocLists == {l \in SeqsUpTo(DocPool, MaxDocs) : UniqueUrls(l)}

Queries == {NoneV, Some(<<>>), Some(<<"ai">>), Some(<<"how", "5">>)}
Days == {0, 1}

(***************************************************************************)
(* training/feature_engineering.py                                         *)
(***************************************************************************)
Bool01(b) == IF b THEN 1 ELSE 0

\* `if text:` -- None and the empty string are falsy
Truthy(o) == ~IsNone(o) /\ Val(o) # <<>>
TruthyStr(s) == s # None /\ s # ""

extract_query_features(query_text) ==
    IF ~Truthy(query_text)
    THEN <<FInt(0), FInt(0), FInt(0), FInt(0), FInt(0), FInt(0)>>
    ELSE LET q == Val(query_text)
         IN  << FInt(TextLen(q)),
                FInt(Len(q)),
                FInt(Bool01(Words(q) \cap QuoteWords # {})),
                FInt(Bool01(Words(q) \cap DigitWords # {})),
                FInt(Bool01(Words(q) \cap QuestionWords # {})),
                FInt(Cardinality({i \in 1..Len(q) : WordLen(q[i]) >= 2})) >>

\* (datetime.now() - pub_dt).days; MISSING_RECENCY_DAYS when the date does not parse
RecencyDays(published_date, today) ==
    CASE published_date = "d0" -> today
      [] published_date = "d1" -> today - 1
      [] OTHER -> MISSING_RECENCY_DAYS

extract_document_features(doc_title, doc_description, published_date, author, url, today) ==
    LET populated == Bool01(Truthy(doc_title)) + Bool01(Truthy(doc_description))
                     + Bool01(TruthyStr(published_date)) + Bool01(TruthyStr(author))
                     + Bool01(url # "")
    IN  << FInt(IF Truthy(doc_description) THEN Len(Val(doc_description)) ELSE 0),
           FInt(IF TruthyStr(published_date)
                THEN RecencyDays(published_date, today) ELSE MISSING_RECENCY_DAYS),
           FInt(Bool01(TruthyStr(author))),
           FInt(Bool01(TruthyStr(published_date))),
           Frac(populated, 5),
           FInt(IF Truthy(doc_title) THEN TextLen(Val(doc_title)) ELSE 0),
           FInt(IF Truthy(doc_description) THEN TextLen(Val(doc_description)) ELSE 0),
           FInt(UrlLen(url)) >>

\* query_text.lower() needs a string; doc_title + " " + doc_description needs two
QueryDocRaises(query_text, doc_title, doc_description) ==
    IsNone(query_text) \/ IsNone(doc_title) \/ IsNone(doc_description)

extract_query_doc_features(query_text, doc_title, doc_description, bm25_score, vector_score, keyword_boost, temporal_boost, final_retrieval_score) ==
    LET query_keywords == Words(Val(query_text))
        doc_keywords == Words(Val(doc_title)) \cup Words(Val(doc_description))
    IN  << FInt(vector_score), FInt(bm25_score), FInt(keyword_boost),
           FInt(temporal_boost), FInt(final_retrieval_score),
           IF Cardinality(query_keywords) > 0
           THEN Frac(Cardinality(query_keywords \cap doc_keywords),
                     Cardinality(query_keywords))
           ELSE FZero,
           FInt(Bool01(Truthy(doc_title)
                       /\ IsSubstring(Val(query_text), Val(doc_title)))) >>

RECURSIVE IntMax(_)
IntMax(s) == IF Len(s) = 1 THEN s[1]
             ELSE LET m == IntMax(Tail(s)) IN IF s[1] < m THEN m ELSE s[1]

\* sorted(all).index(x): the number of entries smaller than x
SortedIndex(all, x) == Cardinality({i \in 1..Len(all) : all[i] < x})

extract_ranking_features(retrieval_position, ranking_position, llm_final_score, all_llm_scores) ==
    << FInt(retrieval_position),
       FInt(ranking_position),
       FInt(llm_final_score),
       IF all_llm_scores # <<>> /\ IntMax(all_llm_scores) > 0
       THEN Frac(llm_final_score, IntMax(all_llm_scores)) ELSE FOne,
       IF Len(all_llm_scores) > 1
       THEN Frac(SortedIndex(all_llm_scores, llm_final_score) * 100,
                 Len(all_llm_scores) - 1)
       ELSE FInt(50),
       FInt(retrieval_position - ranking_position) >>

extract_mmr_features(mmr_diversity_score, detected_intent) ==
    << IF IsNone(mmr_diversity_score) THEN FZero ELSE Val(mmr_diversity_score),
       FInt(CASE detected_intent = "SPECIFIC" -> 0
              [] detected_intent = "EXPLORATORY" -> 1
              [] OTHER -> 2) >>

(***************************************************************************)
(* core/xgboost_ranker.py : extract_features                               *)
(***************************************************************************)
\* the 29 entries written for the document at 0-based position i
feature_vector(result, i, query_text, all_llm_scores, today) ==
    LET retrieval_position ==
            IF result.kind = "dict" \/ IsNone(result.retrieval_position)
            THEN i ELSE Val(result.retrieval_position)
        mmr_score == IF result.kind = "dict" THEN NoneV ELSE result.mmr_score
        detected_intent == IF result.kind = "dict" THEN "BALANCED"
                           ELSE result.detected_intent
        rs == result.retrieval_scores
    IN  extract_query_features(query_text)
        \o extract_document_features(result.title, result.description,
                                     result.published_date, result.author,
                                     result.url, today)
        \o extract_query_doc_features(query_text, result.title, result.description,
                                      rs.bm25_score, rs.vector_score, rs.keyword_boost,
                                      rs.temporal_boost, rs.final_retrieval_score)
        \o extract_ranking_features(retrieval_position, i, Val(result.score),
                                    all_llm_scores)
        \o extract_mmr_features(mmr_score, detected_intent)

\* inputs on which the extraction of one document raises
ResultRaises(result, query_text) ==
    \/ result.kind = "dict" /\ ~result.schema_ok     \* schema_object is None
    \/ QueryDocRaises(query_text, result.title, result.description)
    \/ IsNone(result.score)                          \* max() over a None score

\* [raised, width, rows]: the (n_results, 29) array, or an exception
extract_features(ranking_results, query_text, today) ==
    LET n_results == Len(ranking_results)
    IN  IF \E i \in 1..n_results : ResultRaises(ranking_results[i], query_text)
        THEN [raised |-> TRUE, width |-> 29, rows |-> <<>>]
        ELSE LET all_llm_scores == [i \in 1..n_results |-> Val(ranking_results[i].score)]
                 rows == [i \in 1..n_results |->
                             feature_vector(ranking_results[i], i - 1, query_text,
                                            all_llm_scores, today)]
             IN  \* features[i, :] = feature_vector needs exactly 29 values
                 IF \E i \in 1..n_results : Len(rows[i]) # 29
                 THEN [raised |-> TRUE, width |-> 29, rows |-> <<>>]
                 ELSE [raised |-> FALSE, width |-> 29, rows |-> rows]

(***************************************************************************)
(* core/xgboost_ranker.py : predict                                        *)
(***************************************************************************)
\* variant: the index is taken as 1-based
ColumnOneBased(rows, idx) == [i \in 1..Len(rows) |-> rows[i][idx]]

\* features[:, idx], idx 0-based
Column(rows, idx) == [i \in 1..Len(rows) |-> rows[i][idx + 1]]

\* [raised, scores, confidences]
predict(model, features) ==
    LET n_results == Len(features.rows)
        llm_scores == Column(features.rows, FEATURE_IDX_LLM_FINAL_SCORE)
    IN  IF features.width # TOTAL_FEATURES_PHASE_A
        THEN [raised |-> TRUE, scores |-> <<>>, confidences |-> <<>>]
        ELSE IF model = None
        THEN IF n_results = 0      \* max() of an empty array raises ValueError
             THEN [raised |-> TRUE, scores |-> <<>>, confidences |-> <<>>]
             ELSE [raised |-> FALSE,
                   scores |-> IF FLess(FZero, FMax(llm_scores))
                              THEN [i \in 1..n_results |->
                                       FDiv(llm_scores[i], FMax(llm_scores))]
                              ELSE [i \in 1..n_results |-> FZero],
                   confidences |-> [i \in 1..n_results |-> FHalf]]
        ELSE [raised |-> FALSE,
              scores |-> [i \in 1..n_results |-> FZero],
              confidences |-> [i \in 1..n_results |-> FZero]]

(***************************************************************************)
(* core/xgboost_ranker.py : _calculate_comparison_metrics                  *)
(***************************************************************************)
Perms(n) == {p \in [1..n -> 1..n] : \A i, j \in 1..n : p[i] = p[j] => i = j}

\* the index orders numpy.argsort(-scores) can return: descending by score,
\* the order among equal scores is left to the sort
ArgsortDesc(scores) ==
    {p \in Perms(Len(scores)) :
        \A i, j \in 1..Len(scores) : i < j => FLeq(scores[p[j]], scores[p[i]])}

\* variant: the second argument whatever the first
MinSecond(a, b) == b

Min(a, b) == IF a < b THEN a ELSE b

\* first 1-based position of x in s (list.index)
IndexOf(s, x) == CHOOSE i \in 1..Len(s) : s[i] = x /\ \A j \in 1..(i - 1) : s[j] # x

RECURSIVE IntSum(_)
IntSum(s) == IF s = <<>> THEN 0 ELSE s[1] + IntSum(Tail(s))

\* scipy.stats.kendalltau of x = 0..n-1 against y, y without ties
kendalltau(y) ==
    LET n == Len(y)
        pairs == {pr \in (1..n) \X (1..n) : pr[1] < pr[2]}
        conc == Cardinality({pr \in pairs : y[pr[1]] < y[pr[2]]})
        disc == Cardinality({pr \in pairs : y[pr[1]] > y[pr[2]]})
    IN  Frac(conc - disc, (n * (n - 1)) \div 2)

\* numpy.corrcoef of 0..n-1 against a permutation y of 0..n-1
corrcoef(y) ==
    LET n == Len(y)
        d2 == IntSum([i \in 1..n |-> (y[i] - i) * (y[i] - i)])
    IN  Frac(n * (n * n - 1) - 6 * d2, n * (n * n - 1))

calculate_comparison_metrics(ranking_results, order, scipy) ==
    LET n == Len(ranking_results)
        llm_urls == [i \in 1..n |-> ranking_results[i].url]
        xgb_urls == [k \in 1..n |-> llm_urls[order[k]]]
        top_k == Min(10, n)
        llm_top10 == {llm_urls[i] : i \in 1..top_k}
        xgb_top10 == {xgb_urls[i] : i \in 1..top_k}
        overlap == Cardinality(llm_top10 \cap xgb_top10)
        xgb_pos == [i \in 1..n |-> IndexOf(xgb_urls, llm_urls[i])]
        llm_pos == [k \in 1..n |-> IndexOf(llm_urls, xgb_urls[k])]
    IN  [top10_overlap |-> IF top_k > 0 THEN Frac(overlap, top_k) ELSE FZero,
         rank_correlation |->
             IF n > 1
             THEN IF scipy THEN kendalltau(xgb_pos) ELSE corrcoef(llm_pos)
             ELSE FZero,
         avg_position_change |->
             IF n > 0
             THEN Frac(IntSum([i \in 1..n |-> Abs(i - xgb_pos[i])]), n)
             ELSE FZero]

(***************************************************************************)
(* core/xgboost_ranker.py : rerank                                         *)
(***************************************************************************)
NaN == <<0, 0>>
\* numpy.mean: nan for an empty array
NpMean(s) == IF s = <<>> THEN NaN ELSE FMean(s)

Urls(docs) == [i \in 1..Len(docs) |-> docs[i].url]

Identity(n) == [i \in 1..n |-> i]

\* sorted(..., reverse=True) is stable: equal keys keep their input order
SortedDesc(docs) ==
    LET n == Len(docs)
        key(i) == IF IsNone(docs[i].xgboost_score) THEN FZero
                  ELSE Val(docs[i].xgboost_score)
        before(j, i) == FLess(key(i), key(j)) \/ (key(i) = key(j) /\ j < i)
        pos(i) == 1 + Cardinality({j \in 1..n : j # i /\ before(j, i)})
    IN  [k \in 1..n |-> docs[CHOOSE i \in 1..n : pos(i) = k]]

\* result.xgboost_score = ...: attribute assignment works on objects only
Attach(docs, upto, scores, confidences) ==
    [i \in 1..Len(docs) |->
        IF i <= upto
        THEN [docs[i] EXCEPT !.xgboost_score = Some(scores[i]),
                             !.xgboost_confidence = Some(confidences[i])]
        ELSE docs[i]]

FirstDict(docs) ==
    IF \E i \in 1..Len(docs) : docs[i].kind = "dict"
    THEN CHOOSE i \in 1..Len(docs) :
            docs[i].kind = "dict" /\ \A j \in 1..(i - 1) : docs[j].kind # "dict"
    ELSE 0

\* the entries log_xgboost_scores writes to the analytics sink
LoggedScores(docs, scores, confidences, logfail) ==
    IF logfail = "log_call" THEN {}
    ELSE { [query_id |-> docs[i].query_id, doc_url |-> docs[i].url,
            xgboost_score |-> scores[i], xgboost_confidence |-> confidences[i],
            ranking_position |-> i - 1] :
           i \in {j \in 1..Len(docs) : TruthyStr(docs[j].query_id)} }

RerankOut(results, metadata, path, error, scores, confidences, logged) ==
    [results |-> results, metadata |-> metadata, path |-> path, error |-> error,
     raised |-> FALSE, scores |-> scores, confidences |-> confidences,
     logged |-> logged]

\* variant: only the enabled flag is tested before the ML path
SkipsMLDisabledOnly(self) == ~self.enabled

\* the two early returns: disabled, or no model and not in shadow mode
SkipsML(self) ==
    ~self.enabled \/ (self.model = None /\ ~self.use_shadow_mode)

\* variant: shadow mode hands back the list in predicted order
ShadowResultsSorted(ranking_results, order) ==
    [k \in 1..Len(ranking_results) |-> ranking_results[order[k]]]

\* shadow mode: `return ranking_results, metadata`
ShadowResults(ranking_results, order) == ranking_results

\* variant: the handler returns an empty list
ExceptReturnEmpty(ranking_results, metadata, error, scores, confidences) ==
    RerankOut(<<>>, metadata, "failed", error, scores, confidences, {})

\* variant: the handler logs and re-raises
ExceptReraise(ranking_results, metadata, error, scores, confidences) ==
    [RerankOut(ranking_results, metadata, "failed", error, scores, confidences, {})
        EXCEPT !.raised = TRUE]

\* `except Exception as e:` logs and returns ranking_results, metadata
ExceptReturn(ranking_results, metadata, error, scores, confidences) ==
    RerankOut(ranking_results, metadata, "failed", error, scores, confidences, {})

\* env: today, order (the argsort outcome), scipy (kendalltau importable),
\* logfail ("none", "log_call": log_xgboost_scores raises, "get_logger":
\* the query logger cannot be obtained)
rerank(self, ranking_results, query_text, env) ==
    LET metadata == [used_ml |-> FALSE, shadow_mode |-> self.use_shadow_mode,
                     avg_xgboost_score |-> FZero, avg_confidence |-> FZero,
                     num_results |-> Len(ranking_results), metrics |-> NoneV]
        features == extract_features(ranking_results, query_text, env.today)
        pred == predict(self.model, features)
        metadata1 == [metadata EXCEPT !.avg_xgboost_score = NpMean(pred.scores),
                                      !.avg_confidence = NpMean(pred.confidences)]
        metadata2 == [metadata1 EXCEPT !.metrics =
                         Some(calculate_comparison_metrics(ranking_results,
                                                           env.order, env.scipy))]
        firstDict == FirstDict(ranking_results)
    IN  IF ~self.enabled
        THEN RerankOut(ranking_results, metadata, "disabled", "none", <<>>, <<>>, {})
        ELSE IF SkipsML(self)
        THEN RerankOut(ranking_results, metadata, "no_model", "none", <<>>, <<>>, {})
        ELSE IF features.raised
        THEN ExceptReturn(ranking_results, metadata, "extract", <<>>, <<>>)
        ELSE IF pred.raised
        THEN ExceptReturn(ranking_results, metadata, "predict", <<>>, <<>>)
        ELSE IF self.use_shadow_mode
        THEN IF IsNone(query_text)                     \* query_text[:50]
             THEN ExceptReturn(ranking_results, metadata1, "format",
                               pred.scores, pred.confidences)
             ELSE IF env.logfail = "get_logger"
             THEN ExceptReturn(ranking_results, metadata2, "get_logger",
                               pred.scores, pred.confidences)
             ELSE RerankOut(ShadowResults(ranking_results, env.order), metadata2,
                            "shadow", "none", pred.scores, pred.confidences,
                            LoggedScores(ranking_results, pred.scores,
                                         pred.confidences, env.logfail))
        ELSE IF firstDict # 0
        THEN ExceptReturn(Attach(ranking_results, firstDict - 1,
                                 pred.scores, pred.confidences),
                          metadata1, "attach", pred.scores, pred.confidences)
        ELSE RerankOut(SortedDesc(Attach(ranking_results, Len(ranking_results),
                                         pred.scores, pred.confidences)),
                       [metadata1 EXCEPT !.used_ml = TRUE], "production", "none",
                       pred.scores, pred.confidences, {})

LogFails == {"none", "log_call", "get_logger"}

QuietEnv(today, n) ==
    [today |-> today, order |-> Identity(n), scipy |-> TRUE, logfail |-> "none"]

\* what the environment can do during one call: the date, and, once the
\* shadow branch is reached, the argsort outcome, whether scipy imports and
\* how the analytics logger behaves
Envs(self, ranking_results, query_text) ==
    LET n == Len(ranking_results)
        of(today) ==
            LET features == extract_features(ranking_results, query_text, today)
                pred == predict(self.model, features)
            IN  IF features.raised \/ pred.raised \/ ~self.use_shadow_mode
                THEN {QuietEnv(today, n)}
                ELSE [today : {today}, order : ArgsortDesc(pred.scores),
                      scipy : BOOLEAN, logfail : LogFails]
    IN  IF SkipsML(self)
        THEN {QuietEnv(0, n)}
        ELSE UNION {of(today) : today \in Days}

(***************************************************************************)
(* core/mmr.py : MMRReranker                                               *)
(* A document is a dict with 'name', 'ranking' (whose 'score' key may be   *)
(* missing) and 'vector' (an embedding, or None / no key).  Embeddings are *)
(* tuples of integers whose Euclidean norm is an integer.                  *)
(***************************************************************************)
FSub(a, b) == Frac(a[1] * b[2] - b[1] * a[2], a[2] * b[2])
FMul(a, b) == Frac(a[1] * b[1], a[2] * b[2])
FMax2(a, b) == IF FLess(a, b) THEN b ELSE a
FMin2(a, b) == IF FLess(b, a) THEN b ELSE a

MMRDoc(name, score, vector) == [name |-> name, score |-> score, vector |-> vector]

\* 'how to', 'where', ... / 'best', 'ways', ... as word sequences
specific_indicators == {<<"how", "to">>, <<"where">>}
exploratory_indicators == {<<"best">>, <<"ways">>}

\* variant: the configured lambda is kept whatever the query
detect_intent_keep_lambda(lambda_param, query) ==
    [lambda_param |-> lambda_param, detected_intent |-> "BALANCED"]

\* [lambda_param, detected_intent] after __init__
detect_intent_and_adjust_lambda(lambda_param, query) ==
    LET specific_score == Cardinality({i \in specific_indicators : IsSubstring(i, query)})
        exploratory_score ==
            Cardinality({i \in exploratory_indicators : IsSubstring(i, query)})
    IN  IF query = <<>>
        THEN [lambda_param |-> lambda_param, detected_intent |-> "BALANCED"]
        ELSE IF specific_score > exploratory_score
        THEN [lambda_param |-> <<4, 5>>, detected_intent |-> "SPECIFIC"]
        ELSE IF exploratory_score > specific_score
        THEN [lambda_param |-> <<1, 2>>, detected_intent |-> "EXPLORATORY"]
        ELSE [lambda_param |-> lambda_param, detected_intent |-> "BALANCED"]

RECURSIVE Dot(_, _)
Dot(v1, v2) == IF v1 = <<>> THEN 0 ELSE v1[1] * v2[1] + Dot(Tail(v1), Tail(v2))

\* np.linalg.norm, exact for the embeddings of the model
Norm(v) == LET sq == Dot(v, v) IN CHOOSE n \in 0..sq : n * n = sq

\* np.dot raises ValueError on vectors of different length
DotRaises(v1, v2) == Len(v1) # Len(v2)

\* cosine_similarity: `except Exception: return 0.0`
CosineExcept(v1, v2) == FZero

cosine_similarity(vec1, vec2) ==
    IF DotRaises(vec1, vec2) THEN CosineExcept(vec1, vec2)
    ELSE IF Norm(vec1) = 0 \/ Norm(vec2) = 0 THEN FZero
    ELSE FMax2(FZero, FMin2(FOne, Frac(Dot(vec1, vec2), Norm(vec1) * Norm(vec2))))

HasVector(r) == ~IsNone(r.vector)
Score(r) == IF IsNone(r.score) THEN 0 ELSE Val(r.score)
\* variant: the last k elements
TakeLast(s, k) == SubSeq(s, Len(s) - Min(k, Len(s)) + 1, Len(s))

\* s[:k]
Take(s, k) == SubSeq(s, 1, Min(k, Len(s)))
Zeros(k) == [i \in 1..k |-> FZero]

\* variant: one embedded document fewer is enough to run the selection
TooFewCandidatesTwo(candidates) == Len(candidates) <= 2

\* `if len(candidates) <= 3`, which covers `len(candidates) == 0`
TooFewCandidates(candidates) == Len(candidates) <= 3

\* variant: the similarity penalty is left out
mmr_score_relevance_only(lambda_param, relevance, max_similarity) ==
    FMul(lambda_param, relevance)

\* lambda * relevance - (1 - lambda) * max_similarity
mmr_score(lambda_param, relevance, max_similarity) ==
    FSub(FMul(lambda_param, relevance),
         FMul(FSub(FOne, lambda_param), max_similarity))

RECURSIVE MaxSimilarity(_, _, _)
\* the inner loop over selected_results, starting from max_similarity = 0.0
MaxSimilarity(candidate, candidates, selected) ==
    IF selected = <<>> THEN FZero
    ELSE FMax2(MaxSimilarity(candidate, candidates, Tail(selected)),
               cosine_similarity(Val(candidate.vector),
                                 Val(candidates[Head(selected)].vector)))

\* variant: selected candidates stay in the scan
BestIdxAny(cands, selected, mmr) ==
    CHOOSE i \in 1..Len(cands) :
        \A j \in 1..Len(cands) : /\ FLeq(mmr[j], mmr[i])
                                  /\ (mmr[j] = mmr[i] => i <= j)

\* variant: of several candidates with the largest score the last one wins
BestIdxLast(cands, selected, mmr) ==
    LET open == {i \in 1..Len(cands) : \A k \in 1..Len(selected) : selected[k] # i}
    IN  CHOOSE i \in open :
            \A j \in open : /\ FLeq(mmr[j], mmr[i])
                            /\ (mmr[j] = mmr[i] => j <= i)

\* the candidate scan of one iteration: the first index with the largest score
BestIdx(cands, selected, mmr) ==
    LET open == {i \in 1..Len(cands) : \A k \in 1..Len(selected) : selected[k] # i}
    IN  CHOOSE i \in open :
            \A j \in open : /\ FLeq(mmr[j], mmr[i])
                            /\ (mmr[j] = mmr[i] => i <= j)

RECURSIVE Select(_, _, _, _, _, _, _)
\* the greedy loop `for iteration in range(1, min(top_k, len(candidates)))`;
\* iteration is the number of documents selected so far
Select(lambda_param, cands, min_score, score_range, stop, selected, scores) ==
    IF Len(selected) >= stop THEN [indices |-> selected, scores |-> scores]
    ELSE LET mmr == [i \in 1..Len(cands) |->
                        mmr_score(lambda_param,
                                  Frac(Score(cands[i]) - min_score, score_range),
                                  MaxSimilarity(cands[i], cands, selected))]
             best == BestIdx(cands, selected, mmr)
         IN  Select(lambda_param, cands, min_score, score_range, stop,
                    Append(selected, best), Append(scores, mmr[best]))

RECURSIVE IntMin(_)
IntMin(s) == IF Len(s) = 1 THEN s[1]
             ELSE LET m == IntMin(Tail(s)) IN IF s[1] > m THEN m ELSE s[1]

\* MMRReranker.rerank: [results, scores, order, skipped, raised], order being
\* the positions in `candidates` of the selected embedded documents
mmr_rerank(lambda_param, ranked_results, top_k) ==
    LET candidates == SelectSeq(ranked_results, HasVector)
        non_vector_results == SelectSeq(ranked_results, LAMBDA r : ~HasVector(r))
    IN  IF ranked_results = <<>>
        THEN [results |-> <<>>, scores |-> <<>>, order |-> <<>>,
              skipped |-> TRUE, raised |-> FALSE]
        ELSE IF TooFewCandidates(candidates)
        THEN [results |-> Take(ranked_results, top_k),
              scores |-> Zeros(Min(top_k, Len(ranked_results))),
              order |-> <<>>, skipped |-> TRUE, raised |-> FALSE]
        ELSE LET scores == [i \in 1..Len(candidates) |-> Score(candidates[i])]
                 max_score == IntMax(scores)
                 min_score == IntMin(scores)
                 score_range == IF max_score # min_score THEN max_score - min_score ELSE 1
                 first_idx == 1
                 sel == Select(lambda_param, candidates, min_score, score_range,
                               Min(top_k, Len(candidates)), <<first_idx>>,
                               <<Frac(Score(candidates[first_idx]) - min_score,
                                      score_range)>>)
                 selected_results == [k \in 1..Len(sel.indices) |->
                                         candidates[sel.indices[k]]]
                 remaining_count == top_k - Len(selected_results)
                 fill == IF remaining_count > 0
                         THEN Take(non_vector_results, remaining_count) ELSE <<>>
             IN  [results |-> selected_results \o fill,
                  scores |-> sel.scores \o Zeros(Len(fill)),
                  order |-> sel.indices, skipped |-> FALSE, raised |-> FALSE]

\* the documents MMR is run on: two with equal scores, two with the same
\* embedding, one zero embedding with no score, one without an embedding and
\* one whose embedding has another dimension
MMRPool ==
    { MMRDoc("a", Some(90), Some(<<1, 0>>)),
      MMRDoc("b", Some(90), Some(<<3, 4>>)),
      MMRDoc("c", Some(80), Some(<<1, 0>>)),
      MMRDoc("d", NoneV,    Some(<<0, 0>>)),
      MMRDoc("e", Some(85), NoneV),
      MMRDoc("f", Some(95), Some(<<1, 0, 0>>)) }

\* five documents scored 95..75; the embeddings have norm 10, x2 and x3 have
\* cosine 98/100 and every other pair 10/100
ExampleDocs ==
    << MMRDoc("x1", Some(95), Some(<<3, 1, 9, 3, 0, 0, 0, 0, 0, 0, 0, 0, 0>>)),
       MMRDoc("x2", Some(90), Some(<<3, 1, 0, 0, 7, 5, 4, 0, 0, 0, 0, 0, 0>>)),
       MMRDoc("x3", Some(85), Some(<<3, 1, 0, 0, 6, 6, 4, 1, 1, 0, 0, 0, 0>>)),
       MMRDoc("x4", Some(80), Some(<<3, 1, 0, 0, 0, 0, 0, 0, 0, 9, 3, 0, 0>>)),
       MMRDoc("x5", Some(75), Some(<<3, 1, 0, 0, 0, 0, 0, 0, 0, 0, 0, 9, 3>>)) >>

UniqueNames(docs) == \A i, j \in 1..Len(docs) : docs[i].name = docs[j].name => i = j

PoolDoc(name) == CHOOSE d \in MMRPool : d.name = name

\* s with x put after its first i elements
InsertAt(s, i, x) == SubSeq(s, 1, i) \o <<x>> \o SubSeq(s, i + 1, Len(s))

\* a, b, c, d in this order with the two documents without an embedding, e
\* and g, put anywhere among them
FillLists ==
    LET embedded == <<PoolDoc("a"), PoolDoc("b"), PoolDoc("c"), PoolDoc("d")>>
        g == MMRDoc("g", Some(70), NoneV)
    IN  {InsertAt(InsertAt(embedded, i, PoolDoc("e")), j, g) : i \in 0..4, j \in 0..5}

MMRLists ==
    {l \in SeqsUpTo(MMRPool, MaxCands) : UniqueNames(l)} \cup {ExampleDocs} \cup FillLists

MMRQueries == {<<>>, <<"how", "to", "ai">>, <<"best", "ai">>, <<"best", "how", "to">>}
Lambdas == {<<7, 10>>, FOne}
TopKs == 0..MaxTopK

(***************************************************************************)
(* State                                                                   *)
(***************************************************************************)
VARIABLES
    ranker,        \* XGBoostRanker instances: fields and position in __init__/load_model
    MODEL_CACHE,   \* the module-level _MODEL_CACHE: path -> cached model, "absent" if no key
    fileExists,    \* os.path.exists(model_path)
    loads,         \* per path, how many times load_model wrote the cache entry
    call,          \* the last rerank call: instance, arguments and what it returned
    cache,         \* ResultsCache._cache: conversation_id -> entry
    now,           \* time.time()
    lockOwner,     \* the thread holding ResultsCache._lock, or None
    thr,           \* the threads calling the cache: position, arguments, locals, result
    lastStore,     \* per conversation, the arguments and stamp of the latest store
    keyErrors,     \* the number of `del self._cache[cid]` that raised KeyError
    mmr,           \* the MMRReranker instance: lambda_param, query, detected_intent
    mmrCall,       \* the last MMRReranker.rerank call: arguments and what it returned
    heap,          \* list object -> the documents it holds
    metricsCall    \* the last _calculate_comparison_metrics call on its own

rankerVars == <<ranker, MODEL_CACHE, fileExists, loads, call>>
cacheVars == <<cache, now, lockOwner, thr, lastStore, keyErrors>>
mmrVars == <<mmr, mmrCall>>
vars == <<ranker, MODEL_CACHE, fileExists, loads, call,
          cache, now, lockOwner, thr, lastStore, keyErrors, mmr, mmrCall, heap, metricsCall>>

Instances == {"r1", "r2"}
Paths == {"m1", "m2"}

\* cfg_enabled keeps config['enabled'] as given to __init__
NewRanker == [enabled |-> FALSE, cfg_enabled |-> FALSE, model_path |-> "m1",
              use_shadow_mode |-> TRUE, model |-> None, pc |-> "new"]

NoCall == [r |-> None, self |-> NewRanker, input |-> <<>>, query |-> NoneV,
           env |-> QuietEnv(0, 0),
           out |-> RerankOut(<<>>, [used_ml |-> FALSE, shadow_mode |-> TRUE,
                                    avg_xgboost_score |-> FZero,
                                    avg_confidence |-> FZero, num_results |-> 0,
                                    metrics |-> NoneV],
                             "none", "none", <<>>, <<>>, {})]

RankerInit ==
    /\ ranker = [r \in Instances |-> NewRanker]
    /\ MODEL_CACHE = [p \in Paths |-> "absent"]
    /\ fileExists \in [Paths -> BOOLEAN]
    /\ loads = [p \in Paths |-> 0]
    /\ call = NoCall

(***************************************************************************)
(* XGBoostRanker.__init__ and load_model.  load_model takes no lock, so    *)
(* its three parts (cache lookup, file check, load and cache write) are    *)
(* separate steps that interleave between instances.                       *)
(***************************************************************************)
\* __init__: the configuration is read; load_model follows when enabled
Construct(r, enabled, model_path, use_shadow_mode) ==
    /\ ranker[r].pc = "new"
    /\ ranker' = [ranker EXCEPT ![r] =
                     [enabled |-> enabled, cfg_enabled |-> enabled,
                      model_path |-> model_path,
                      use_shadow_mode |-> use_shadow_mode, model |-> None,
                      pc |-> IF enabled THEN "check_cache" ELSE "ready"]]
    /\ UNCHANGED <<MODEL_CACHE, fileExists, loads, call>>

\* load_model: `if self.model_path in _MODEL_CACHE`
LoadCheckCache(r) ==
    LET self == ranker[r]
    IN  /\ self.pc = "check_cache"
        /\ ranker' = [ranker EXCEPT ![r] =
                         IF MODEL_CACHE[self.model_path] # "absent"
                         THEN [self EXCEPT !.model = MODEL_CACHE[self.model_path],
                                           !.pc = "ready"]
                         ELSE [self EXCEPT !.pc = "check_file"]]
        /\ UNCHANGED <<MODEL_CACHE, fileExists, loads, call>>

\* variant: a missing file leaves the enabled flag alone
LoadCheckFileKeepsEnabled(r) ==
    LET self == ranker[r]
    IN  /\ self.pc = "check_file"
        /\ ranker' = [ranker EXCEPT ![r] =
                         IF ~fileExists[self.model_path]
                         THEN [self EXCEPT !.pc = "ready"]
                         ELSE [self EXCEPT !.pc = "load"]]
        /\ UNCHANGED <<MODEL_CACHE, fileExists, loads, call>>

\* load_model: `if not os.path.exists(self.model_path)`; without shadow mode
\* the ranker disables itself
LoadCheckFile(r) ==
    LET self == ranker[r]
    IN  /\ self.pc = "check_file"
        /\ ranker' = [ranker EXCEPT ![r] =
                         IF ~fileExists[self.model_path]
                         THEN [self EXCEPT !.enabled = self.use_shadow_mode,
                                           !.pc = "ready"]
                         ELSE [self EXCEPT !.pc = "load"]]
        /\ UNCHANGED <<MODEL_CACHE, fileExists, loads, call>>

\* load_model: the try block; the model loading itself is commented out in
\* the source, self.model stays None and is what the cache receives
LoadModel(r) ==
    /\ ranker[r].pc = "load"
    /\ MODEL_CACHE' = [MODEL_CACHE EXCEPT ![ranker[r].model_path] = ranker[r].model]
    /\ loads' = [loads EXCEPT ![ranker[r].model_path] = @ + 1]
    /\ ranker' = [ranker EXCEPT ![r].pc = "ready"]
    /\ UNCHANGED <<fileExists, call>>

\* one call of rerank on a constructed instance
Rerank(r, ranking_results, query_text, env) ==
    /\ ranker[r].pc = "ready"
    /\ call = NoCall
    /\ call' = [r |-> r, self |-> ranker[r], input |-> ranking_results,
                query |-> query_text, env |-> env,
                out |-> rerank(ranker[r], ranking_results, query_text, env)]
    /\ UNCHANGED <<ranker, MODEL_CACHE, fileExists, loads>>

\* the caller takes (reranked, metadata); the instance is ready for the next call
Return ==
    /\ call # NoCall
    /\ call' = NoCall
    /\ UNCHANGED <<ranker, MODEL_CACHE, fileExists, loads>>

ConstructAny(R) ==
    \E r \in R, e \in BOOLEAN, p \in Paths, sh \in BOOLEAN : Construct(r, e, p, sh)

RerankAny(R) ==
    /\ call = NoCall
    /\ \E r \in {x \in R : ranker[x].pc = "ready"}, docs \in DocLists, q \in Queries :
          \E env \in Envs(ranker[r], docs, q) : Rerank(r, docs, q, env)

(***************************************************************************)
(* core/results_cache.py : ResultsCache                                    *)
(* Callers are threads; every method body runs inside `with self._lock`.   *)
(* The clock advances between any two steps.                               *)
(***************************************************************************)
Threads == {"t1", "t2"}
CacheKeys == {"c1", "c2"}
\* (results, query) argument pairs of store
StoreArgs == { <<(<<"u1">>), "qa">>, <<(<<"u2", "u3">>), "qb">> }

NoEntry == [final_ranked_answers |-> <<>>, query |-> "", timestamp |-> 0]

IdleThread == [pc |-> "idle", op |-> "none", cid |-> "c1", results |-> <<>>,
               query |-> "", entry |-> NoEntry, expired |-> {}, current_time |-> -1,
               ret |-> NoneV, age |-> -1, sizeBefore |-> 0, sizeAfter |-> 0,
               latest |-> NoneV, since |-> -1, replaced |-> FALSE, stats |-> [total_entries |-> 0, total_results |-> 0],
               raised |-> FALSE]

CacheInit ==
    /\ cache = [c \in {} |-> NoEntry]
    /\ now = 0
    /\ lockOwner = None
    /\ thr = [t \in Threads |-> IdleThread]
    /\ lastStore = [c \in CacheKeys |-> NoneV]
    /\ keyErrors = 0

\* variant: an existing entry for the key is kept
DictSetDefault(d, k, v) ==
    [x \in DOMAIN d \cup {k} |-> IF x \in DOMAIN d THEN d[x] ELSE v]

DictSet(d, k, v) == [x \in DOMAIN d \cup {k} |-> IF x = k THEN v ELSE d[x]]
\* variant: deleting a key clears the map
DictClear(d, k) == [x \in {} |-> NoEntry]

\* del d[k]
DictDel(d, k) == [x \in DOMAIN d \ {k} |-> d[x]]

\* a call that has returned: its frame is gone
Finished(th) == [IdleThread EXCEPT !.op = th.op]

\* leaving the `with` block
Unlock(t) == IF lockOwner = t THEN None ELSE lockOwner

CallStore(t, c, results, query) ==
    /\ thr[t].pc = "idle"
    /\ thr' = [thr EXCEPT ![t] = [IdleThread EXCEPT !.pc = "lock", !.op = "store",
                                                    !.cid = c, !.results = results,
                                                    !.query = query]]
    /\ UNCHANGED <<cache, now, lockOwner, lastStore, keyErrors>>

CallRetrieve(t, c) ==
    /\ thr[t].pc = "idle"
    /\ thr' = [thr EXCEPT ![t] = [IdleThread EXCEPT !.pc = "lock", !.op = "retrieve",
                                                    !.cid = c]]
    /\ UNCHANGED <<cache, now, lockOwner, lastStore, keyErrors>>

CallGetStats(t) ==
    /\ thr[t].pc = "idle"
    /\ thr' = [thr EXCEPT ![t] = [IdleThread EXCEPT !.pc = "lock", !.op = "get_stats"]]
    /\ UNCHANGED <<cache, now, lockOwner, lastStore, keyErrors>>

\* variant: the body is entered without waiting for the lock
LockAlwaysFree(t) == TRUE

\* threading.RLock: free, or already held by the same thread
LockFree(t) == lockOwner = None \/ lockOwner = t

\* `with self._lock:`
AcquireLock(t) ==
    /\ thr[t].pc = "lock"
    /\ LockFree(t)
    /\ lockOwner' = t
    /\ thr' = [thr EXCEPT ![t].pc = CASE thr[t].op = "store" -> "write"
                                      [] thr[t].op = "retrieve" -> "lookup"
                                      [] OTHER -> "stats"]
    /\ UNCHANGED <<cache, now, lastStore, keyErrors>>

\* store: self._cache[conversation_id] = {...}
StoreWrite(t) ==
    /\ thr[t].pc = "write"
    /\ LET e == [final_ranked_answers |-> thr[t].results, query |-> thr[t].query,
                 timestamp |-> now]
       IN  /\ cache' = DictSet(cache, thr[t].cid, e)
           /\ lastStore' = [lastStore EXCEPT ![thr[t].cid] =
                               Some([entry |-> e,
                                     replaced |-> thr[t].cid \in DOMAIN cache])]
    /\ thr' = [thr EXCEPT ![t].pc = "scan"]
    /\ UNCHANGED <<now, lockOwner, keyErrors>>

\* variant: the sweep finds nothing
ExpiredNone(d, current_time) == {}

\* the entries _cleanup_expired finds expired at current_time
Expired(d, current_time) ==
    {cid \in DOMAIN d : current_time - d[cid].timestamp > ttl_seconds}

\* _cleanup_expired: current_time = time.time() and the scan of the map
CleanupScan(t) ==
    /\ thr[t].pc = "scan"
    /\ LET expired == Expired(cache, now)
           size == Cardinality(DOMAIN cache)
       IN  IF expired = {}
           THEN /\ thr' = [thr EXCEPT ![t] = [Finished(thr[t]) EXCEPT
                                                 !.sizeBefore = size, !.sizeAfter = size]]
                /\ lockOwner' = Unlock(t)
           ELSE /\ thr' = [thr EXCEPT ![t].pc = "delete", ![t].expired = expired,
                                       ![t].current_time = now,
                                       ![t].sizeBefore = size]
                /\ UNCHANGED lockOwner
    /\ UNCHANGED <<cache, now, lastStore, keyErrors>>

\* _cleanup_expired: one `del self._cache[cid]` of the loop
CleanupDelete(t) ==
    /\ thr[t].pc = "delete"
    /\ \E cid \in thr[t].expired :
          IF cid \in DOMAIN cache
          THEN /\ cache' = DictDel(cache, cid)
               /\ thr' = [thr EXCEPT ![t] =
                                 IF thr[t].expired = {cid}
                                 THEN [Finished(thr[t]) EXCEPT
                                          !.sizeBefore = thr[t].sizeBefore,
                                          !.sizeAfter = Cardinality(DOMAIN cache')]
                                 ELSE [thr[t] EXCEPT !.expired = @ \ {cid}]]
               /\ lockOwner' = IF thr[t].expired = {cid} THEN Unlock(t) ELSE lockOwner
               /\ UNCHANGED keyErrors
          ELSE /\ keyErrors' = keyErrors + 1
               /\ thr' = [thr EXCEPT ![t] = [Finished(thr[t]) EXCEPT !.raised = TRUE]]
               /\ lockOwner' = Unlock(t)
               /\ UNCHANGED cache
    /\ UNCHANGED <<now, lastStore>>

\* what a retrieve of c at time `at` should see: the list of the latest
\* store to c, how long ago it was stamped, whether it replaced an entry
Latest(c, at) ==
    IF lastStore[c] = NoneV
    THEN [latest |-> NoneV, since |-> -1, replaced |-> FALSE]
    ELSE [latest |-> Some(Val(lastStore[c]).entry.final_ranked_answers),
          since |-> at - Val(lastStore[c]).entry.timestamp,
          replaced |-> Val(lastStore[c]).replaced]

Noted(th, l) ==
    [th EXCEPT !.latest = l.latest, !.since = l.since, !.replaced = l.replaced]

\* retrieve: `if conversation_id not in self._cache` and entry = self._cache[...]
RetrieveLookup(t) ==
    /\ thr[t].pc = "lookup"
    /\ IF thr[t].cid \notin DOMAIN cache
       THEN /\ thr' = [thr EXCEPT ![t] = Noted(Finished(thr[t]),
                                               Latest(thr[t].cid, now))]
            /\ lockOwner' = Unlock(t)
       ELSE /\ thr' = [thr EXCEPT ![t].pc = "check", ![t].entry = cache[thr[t].cid]]
            /\ UNCHANGED lockOwner
    /\ UNCHANGED <<cache, now, lastStore, keyErrors>>

\* variant: an entry aged exactly ttl counts as expired
IsExpiredAtTtl(age) == age >= ttl_seconds

\* retrieve: `if age > self.ttl_seconds`
IsExpired(age) == age > ttl_seconds

\* retrieve: age = time.time() - entry['timestamp'] and the expiry test
RetrieveCheck(t) ==
    /\ thr[t].pc = "check"
    /\ LET age == now - thr[t].entry.timestamp
           seen == Noted(thr[t], Latest(thr[t].cid, now))
       IN  IF IsExpired(age)
           THEN /\ thr' = [thr EXCEPT ![t] = [seen EXCEPT !.pc = "expire", !.age = age]]
                /\ UNCHANGED lockOwner
           ELSE /\ thr' = [thr EXCEPT ![t] =
                              [Noted(Finished(thr[t]), Latest(thr[t].cid, now))
                                  EXCEPT !.age = age,
                                         !.ret = Some(thr[t].entry.final_ranked_answers)]]
                /\ lockOwner' = Unlock(t)
    /\ UNCHANGED <<cache, now, lastStore, keyErrors>>

\* retrieve: del self._cache[conversation_id]; return None
RetrieveExpire(t) ==
    /\ thr[t].pc = "expire"
    /\ IF thr[t].cid \in DOMAIN cache
       THEN /\ cache' = DictDel(cache, thr[t].cid)
            /\ thr' = [thr EXCEPT ![t] =
                          [thr[t] EXCEPT !.pc = "idle", !.ret = NoneV,
                                         !.cid = IdleThread.cid, !.entry = NoEntry,
                                         !.sizeBefore = Cardinality(DOMAIN cache),
                                         !.sizeAfter = Cardinality(DOMAIN cache')]]
            /\ UNCHANGED keyErrors
       ELSE /\ keyErrors' = keyErrors + 1
            /\ thr' = [thr EXCEPT ![t] = [Finished(thr[t]) EXCEPT !.raised = TRUE]]
            /\ UNCHANGED cache
    /\ lockOwner' = Unlock(t)
    /\ UNCHANGED <<now, lastStore>>

\* get_stats: the two aggregates over the map
GetStats(t) ==
    /\ thr[t].pc = "stats"
    /\ LET keys == DOMAIN cache
           RECURSIVE total(_)
           total(K) == IF K = {} THEN 0
                       ELSE LET k == CHOOSE x \in K : TRUE
                            IN  Len(cache[k].final_ranked_answers) + total(K \ {k})
       IN  thr' = [thr EXCEPT ![t].pc = "idle",
                              ![t].stats = [total_entries |-> Cardinality(keys),
                                            total_results |-> total(keys)]]
    /\ lockOwner' = Unlock(t)
    /\ UNCHANGED <<cache, now, lastStore, keyErrors>>

\* time.time() advances
Tick ==
    /\ now < MaxTime
    /\ now' = now + 1
    /\ UNCHANGED <<cache, lockOwner, thr, lastStore, keyErrors>>

(***************************************************************************)
(* MMRReranker: construction and rerank calls                              *)
(***************************************************************************)
NewMMR == [pc |-> "new", configured |-> <<7, 10>>, lambda_param |-> <<7, 10>>,
           query |-> <<>>, detected_intent |-> "BALANCED"]

NoMMRCall == [called |-> FALSE, self |-> NewMMR, input |-> <<>>, top_k |-> 0,
              out |-> [results |-> <<>>, scores |-> <<>>, order |-> <<>>,
                       skipped |-> TRUE, raised |-> FALSE]]

MMRInit ==
    /\ mmr = NewMMR
    /\ mmrCall = NoMMRCall

\* __init__: lambda_param, query, then the intent-based adjustment of lambda
MMRConstruct(lambda_param, query) ==
    /\ mmrCall = NoMMRCall
    /\ LET adj == detect_intent_and_adjust_lambda(lambda_param, query)
       IN  mmr' = [pc |-> "ready", configured |-> lambda_param,
                   lambda_param |-> adj.lambda_param, query |-> query,
                   detected_intent |-> adj.detected_intent]
    /\ UNCHANGED mmrCall

\* one call of rerank(ranked_results, top_k=top_k)
MMRRerank(ranked_results, top_k) ==
    /\ mmr.pc = "ready"
    /\ mmrCall = NoMMRCall
    /\ mmrCall' = [called |-> TRUE, self |-> mmr, input |-> ranked_results,
                   top_k |-> top_k,
                   out |-> mmr_rerank(mmr.lambda_param, ranked_results, top_k)]
    /\ UNCHANGED mmr

\* the caller has taken the result
MMRReturn ==
    /\ mmrCall # NoMMRCall
    /\ mmrCall' = NoMMRCall
    /\ UNCHANGED mmr

(***************************************************************************)
(* List objects.  A caller of the cache passes and receives references to  *)
(* list objects; heap holds what each list object contains.                *)
(***************************************************************************)
(* _calculate_comparison_metrics called on lists longer than the top 10    *)
(***************************************************************************)
\* the longest list the metrics are computed on
MaxMetricsDocs == 11

\* a list of n documents with the urls 1..n
UrlDocs(n) == [i \in 1..n |-> [url |-> i]]

\* orders an argsort can give: every rotation, every exchange of two
\* positions and the reversal of 1..n
Rotation(n, r) == [k \in 1..n |-> ((k - 1 + r) % n) + 1]
Exchange(n, i, j) == [k \in 1..n |-> IF k = i THEN j ELSE IF k = j THEN i ELSE k]
Reversal(n) == [k \in 1..n |-> n + 1 - k]
MetricsOrders(n) ==
    {Rotation(n, r) : r \in 0..(n - 1)}
        \cup {Exchange(n, i, j) : i \in 1..n, j \in 1..n}
        \cup {Reversal(n)}

\* predicted scores that argsort(-scores) can turn into `order`: all
\* different and descending along the order, or all equal
ScoresFor(order) ==
    LET n == Len(order)
    IN  { [i \in 1..n |-> FInt(n - IndexOf(order, i))], [i \in 1..n |-> FZero] }

NoMetricsCall == [called |-> FALSE, ranking_results |-> <<>>, xgboost_scores |-> <<>>,
                  order |-> <<>>, scipy |-> TRUE,
                  out |-> [top10_overlap |-> FZero, rank_correlation |-> FZero,
                           avg_position_change |-> FZero]]

MetricsInit == metricsCall = NoMetricsCall

\* one call with the argsort outcome `order` of xgboost_scores
Metrics(ranking_results, xgboost_scores, order, scipy) ==
    /\ metricsCall = NoMetricsCall
    /\ metricsCall' = [called |-> TRUE, ranking_results |-> ranking_results,
                       xgboost_scores |-> xgboost_scores, order |-> order,
                       scipy |-> scipy,
                       out |-> calculate_comparison_metrics(ranking_results, order,
                                                            scipy)]

MetricsReturn ==
    /\ metricsCall # NoMetricsCall
    /\ metricsCall' = NoMetricsCall

(***************************************************************************)
ListRefs == {"L1", "L2"}

HeapDoc(name, vector) == [name |-> name, vector |-> vector]

HeapInit ==
    heap = [l \in ListRefs |->
               IF l = "L1" THEN <<HeapDoc("u1", TRUE)>>
               ELSE <<HeapDoc("u2", TRUE), HeapDoc("u3", FALSE)>>]

\* (list, query) arguments of store, the list given by reference
RefArgs == { <<"L1", "qa">>, <<"L2", "qb">> }

\* the list objects a caller holds: passed to store, or returned by retrieve
HeldRefs ==
    {l \in ListRefs :
        \/ \E c \in CacheKeys : lastStore[c] # NoneV
                                /\ Val(lastStore[c]).entry.final_ranked_answers = l
        \/ \E t \in Threads : thr[t].ret = Some(l)}

\* post_ranking: `for result in final_ranked_answers: result.pop('vector', None)`
PopVectors(l) ==
    /\ l \in HeldRefs
    /\ \E i \in 1..Len(heap[l]) : heap[l][i].vector
    /\ heap' = [heap EXCEPT ![l] = [i \in 1..Len(heap[l]) |->
                                       [heap[l][i] EXCEPT !.vector = FALSE]]]

(***************************************************************************)
(* Specifications                                                          *)
(***************************************************************************)
\* one ranker instance: construction, load_model and rerank calls
InitRanker == RankerInit /\ CacheInit /\ MMRInit /\ HeapInit /\ MetricsInit

ConstructOne == ConstructAny({"r1"})
LoadCheckCacheOne == LoadCheckCache("r1")
LoadCheckFileOne == LoadCheckFile("r1")
LoadModelOne == LoadModel("r1")
RerankOne == RerankAny({"r1"})

NextRanker ==
    \/ ConstructOne /\ UNCHANGED <<cacheVars, mmrVars, heap, metricsCall>>
    \/ LoadCheckCacheOne /\ UNCHANGED <<cacheVars, mmrVars, heap, metricsCall>>
    \/ LoadCheckFileOne /\ UNCHANGED <<cacheVars, mmrVars, heap, metricsCall>>
    \/ LoadModelOne /\ UNCHANGED <<cacheVars, mmrVars, heap, metricsCall>>
    \/ RerankOne /\ UNCHANGED <<cacheVars, mmrVars, heap, metricsCall>>
    \/ Return /\ UNCHANGED <<cacheVars, mmrVars, heap, metricsCall>>

SpecRanker == InitRanker /\ [][NextRanker]_vars

\* several ranker instances constructed concurrently
InitLoad == RankerInit /\ CacheInit /\ MMRInit /\ HeapInit /\ MetricsInit

ConstructSome == ConstructAny(Instances)
LoadCheckCacheSome == \E r \in Instances : LoadCheckCache(r)
LoadCheckFileSome == \E r \in Instances : LoadCheckFile(r)
LoadModelSome == \E r \in Instances : LoadModel(r)

NextLoad ==
    \/ ConstructSome /\ UNCHANGED <<cacheVars, mmrVars, heap, metricsCall>>
    \/ LoadCheckCacheSome /\ UNCHANGED <<cacheVars, mmrVars, heap, metricsCall>>
    \/ LoadCheckFileSome /\ UNCHANGED <<cacheVars, mmrVars, heap, metricsCall>>
    \/ LoadModelSome /\ UNCHANGED <<cacheVars, mmrVars, heap, metricsCall>>

SpecLoad == InitLoad /\ [][NextLoad]_vars

\* the results cache under concurrent callers
QuietRanker == RankerInit /\ fileExists = [p \in Paths |-> FALSE]

InitCache == QuietRanker /\ CacheInit /\ MMRInit /\ HeapInit /\ MetricsInit

NextCache ==
    \/ (\E t \in Threads, c \in CacheKeys, a \in StoreArgs : CallStore(t, c, a[1], a[2]))
          /\ UNCHANGED <<rankerVars, mmrVars, heap, metricsCall>>
    \/ (\E t \in Threads, c \in CacheKeys : CallRetrieve(t, c)) /\ UNCHANGED <<rankerVars, mmrVars, heap, metricsCall>>
    \/ (\E t \in Threads : CallGetStats(t)) /\ UNCHANGED <<rankerVars, mmrVars, heap, metricsCall>>
    \/ (\E t \in Threads : AcquireLock(t)) /\ UNCHANGED <<rankerVars, mmrVars, heap, metricsCall>>
    \/ (\E t \in Threads : StoreWrite(t)) /\ UNCHANGED <<rankerVars, mmrVars, heap, metricsCall>>
    \/ (\E t \in Threads : CleanupScan(t)) /\ UNCHANGED <<rankerVars, mmrVars, heap, metricsCall>>
    \/ (\E t \in Threads : CleanupDelete(t)) /\ UNCHANGED <<rankerVars, mmrVars, heap, metricsCall>>
    \/ (\E t \in Threads : RetrieveLookup(t)) /\ UNCHANGED <<rankerVars, mmrVars, heap, metricsCall>>
    \/ (\E t \in Threads : RetrieveCheck(t)) /\ UNCHANGED <<rankerVars, mmrVars, heap, metricsCall>>
    \/ (\E t \in Threads : RetrieveExpire(t)) /\ UNCHANGED <<rankerVars, mmrVars, heap, metricsCall>>
    \/ (\E t \in Threads : GetStats(t)) /\ UNCHANGED <<rankerVars, mmrVars, heap, metricsCall>>
    \/ Tick /\ UNCHANGED <<rankerVars, mmrVars, heap, metricsCall>>

SpecCache == InitCache /\ [][NextCache]_vars

\* the diversity re-ranker: construction and rerank calls
InitMMR == QuietRanker /\ CacheInit /\ MMRInit /\ HeapInit /\ MetricsInit

MMRConstructAny == \E l \in Lambdas, q \in MMRQueries : MMRConstruct(l, q)
MMRRerankAny ==
    /\ mmr.pc = "ready"
    /\ mmrCall = NoMMRCall
    /\ \E docs \in MMRLists, k \in TopKs : MMRRerank(docs, k)

NextMMR ==
    \/ MMRConstructAny /\ UNCHANGED <<rankerVars, cacheVars, heap, metricsCall>>
    \/ MMRRerankAny /\ UNCHANGED <<rankerVars, cacheVars, heap, metricsCall>>
    \/ MMRReturn /\ UNCHANGED <<rankerVars, cacheVars, heap, metricsCall>>

SpecMMR == InitMMR /\ [][NextMMR]_vars

\* one caller of the cache that keeps the list objects it stored or retrieved
InitAlias == QuietRanker /\ CacheInit /\ MMRInit /\ HeapInit /\ MetricsInit

NextAlias ==
    \/ (\E c \in CacheKeys, a \in RefArgs : CallStore("t1", c, a[1], a[2]))
          /\ UNCHANGED <<rankerVars, mmrVars, heap, metricsCall>>
    \/ (\E c \in CacheKeys : CallRetrieve("t1", c)) /\ UNCHANGED <<rankerVars, mmrVars, heap, metricsCall>>
    \/ AcquireLock("t1") /\ UNCHANGED <<rankerVars, mmrVars, heap, metricsCall>>
    \/ StoreWrite("t1") /\ UNCHANGED <<rankerVars, mmrVars, heap, metricsCall>>
    \/ CleanupScan("t1") /\ UNCHANGED <<rankerVars, mmrVars, heap, metricsCall>>
    \/ CleanupDelete("t1") /\ UNCHANGED <<rankerVars, mmrVars, heap, metricsCall>>
    \/ RetrieveLookup("t1") /\ UNCHANGED <<rankerVars, mmrVars, heap, metricsCall>>
    \/ RetrieveCheck("t1") /\ UNCHANGED <<rankerVars, mmrVars, heap, metricsCall>>
    \/ RetrieveExpire("t1") /\ UNCHANGED <<rankerVars, mmrVars, heap, metricsCall>>
    \/ Tick /\ UNCHANGED <<rankerVars, mmrVars, heap, metricsCall>>
    \/ (\E l \in ListRefs : PopVectors(l)) /\ UNCHANGED <<rankerVars, mmrVars, cacheVars, metricsCall>>

SpecAlias == InitAlias /\ [][NextAlias]_vars

\* one caller of the cache whose calls, once made, run to completion while
\* the clock advances; nothing obliges the caller to make a further call
InitFair == QuietRanker /\ CacheInit /\ MMRInit /\ HeapInit /\ MetricsInit

CallsFair ==
    \/ (\E c \in CacheKeys, a \in StoreArgs : CallStore("t1", c, a[1], a[2]))
    \/ (\E c \in CacheKeys : CallRetrieve("t1", c))
    \/ CallGetStats("t1")

BodyFair ==
    \/ AcquireLock("t1")
    \/ StoreWrite("t1")
    \/ CleanupScan("t1")
    \/ CleanupDelete("t1")
    \/ RetrieveLookup("t1")
    \/ RetrieveCheck("t1")
    \/ RetrieveExpire("t1")
    \/ GetStats("t1")

NextFair ==
    \/ CallsFair /\ UNCHANGED <<rankerVars, mmrVars, heap, metricsCall>>
    \/ BodyFair /\ UNCHANGED <<rankerVars, mmrVars, heap, metricsCall>>
    \/ Tick /\ UNCHANGED <<rankerVars, mmrVars, heap, metricsCall>>

SpecFair ==
    /\ InitFair
    /\ [][NextFair]_vars
    /\ WF_vars(BodyFair /\ UNCHANGED <<rankerVars, mmrVars, heap, metricsCall>>)
    /\ WF_vars(Tick /\ UNCHANGED <<rankerVars, mmrVars, heap, metricsCall>>)

\* the comparison metrics on lists of 1..MaxMetricsDocs documents
InitMetrics == QuietRanker /\ CacheInit /\ MMRInit /\ HeapInit /\ MetricsInit

MetricsAny ==
    \E n \in 1..MaxMetricsDocs, scipy \in BOOLEAN :
        \E order \in MetricsOrders(n) :
            \E xgboost_scores \in ScoresFor(order) :
                Metrics(UrlDocs(n), xgboost_scores, order, scipy)

NextMetrics ==
    \/ MetricsAny /\ UNCHANGED <<rankerVars, cacheVars, mmrVars, heap>>
    \/ MetricsReturn /\ UNCHANGED <<rankerVars, cacheVars, mmrVars, heap>>

SpecMetrics == InitMetrics /\ [][NextMetrics]_vars

\* the whole program
Init == RankerInit /\ CacheInit /\ MMRInit /\ HeapInit /\ MetricsInit
Next == NextRanker \/ NextLoad \/ NextCache \/ NextMMR \/ NextAlias \/ NextFair \/ NextMetrics
Spec == Init /\ [][Next]_vars

(***************************************************************************)
(* Properties of XGBoostRanker                                             *)
(***************************************************************************)
Called == call # NoCall

\* the fallback prediction for a document list: llm score / max llm score
FallbackScore(docs, i) ==
    LET all == [k \in 1..Len(docs) |-> Val(docs[k].score)]
    IN  IF IntMax(all) > 0 THEN Frac(all[i], IntMax(all)) ELSE FZero

Extractable(docs, query_text) ==
    \A i \in 1..Len(docs) : ~ResultRaises(docs[i], query_text)

\* C1: in shadow mode (enabled, use_shadow_mode) rerank returns the same URLs
\* in the same order as its input and does not raise, whatever was predicted
\* and whether or not logging to the analytics sink fails.
C1_ShadowNonMutation ==
    (Called /\ call.self.enabled /\ call.self.use_shadow_mode)
        => /\ ~call.out.raised
           /\ Urls(call.out.results) = Urls(call.input)

\* a shadow call whose predicted order differs from the input order and whose
\* analytics logging failed
C1_Witness ==
    /\ Called /\ call.self.enabled /\ call.self.use_shadow_mode
    /\ call.out.path = "shadow"
    /\ call.env.order # Identity(Len(call.input))
    /\ call.env.logfail = "log_call"
    /\ call.out.metadata.metrics # NoneV

\* C5: each model path is loaded and written to the process-wide cache at
\* most once, however the load_model calls of several instances interleave.
C5_LoadOnce == \A p \in Paths : loads[p] <= 1

\* C6: in production mode (enabled, not shadow, model file present) rerank
\* attaches the predicted score to every document, returns the documents
\* stable-sorted by descending predicted score and reports used_ml = true.
C6_ProductionSorts ==
    (/\ Called /\ call.self.cfg_enabled /\ ~call.self.use_shadow_mode
     /\ fileExists[call.self.model_path]
     /\ Len(call.input) >= 2
     /\ \A i \in 1..Len(call.input) : call.input[i].kind = "obj"
     /\ Extractable(call.input, call.query))
        => /\ call.out.metadata.used_ml
           /\ Len(call.out.results) = Len(call.input)
           /\ \A i \in 1..Len(call.out.results) :
                 ~IsNone(call.out.results[i].xgboost_score)
           /\ call.out.results = SortedDesc(call.out.results)

\* C7: when the ranker is disabled, or no model is loaded and shadow mode is
\* off, rerank returns its input unchanged with used_ml = false and computes
\* nothing: average score and confidence stay 0, no agreement metrics, no
\* predictions, nothing logged.
C7_PassThrough ==
    (Called /\ (~call.self.enabled
                \/ (call.self.model = None /\ ~call.self.use_shadow_mode)))
        => /\ call.out.results = call.input
           /\ ~call.out.metadata.used_ml
           /\ call.out.metadata.avg_xgboost_score = FZero
           /\ call.out.metadata.avg_confidence = FZero
           /\ call.out.metadata.metrics = NoneV
           /\ call.out.scores = <<>> /\ call.out.confidences = <<>>
           /\ call.out.logged = {}
           /\ call.out.error = "none" /\ ~call.out.raised

\* an enabled ranker without model and without shadow mode was called on
\* documents it could have scored
C7_Witness ==
    /\ Called /\ call.self.enabled /\ call.self.model = None
    /\ ~call.self.use_shadow_mode
    /\ Len(call.input) >= 2 /\ Extractable(call.input, call.query)
    /\ call.out.path = "no_model"

\* C8: with no model loaded and shadow mode on, prediction never fails:
\* every document's predicted score is its relevance score normalised into
\* [0,1], the predicted order agrees with the order by relevance score, and
\* every confidence is 0.5.
C8_FallbackPrediction ==
    (/\ Called /\ call.self.enabled /\ call.self.model = None
     /\ call.self.use_shadow_mode
     /\ Extractable(call.input, call.query)
     /\ ~(IsNone(call.query) /\ call.input # <<>>))
        => /\ call.out.error # "predict"
           /\ Len(call.out.scores) = Len(call.input)
           /\ Len(call.out.confidences) = Len(call.input)
           /\ \A i \in 1..Len(call.input) :
                 /\ call.out.scores[i] = FallbackScore(call.input, i)
                 /\ FLeq(FZero, call.out.scores[i]) /\ FLeq(call.out.scores[i], FOne)
                 /\ call.out.confidences[i] = FHalf
           /\ \A i, j \in 1..Len(call.input) :
                 Val(call.input[i].score) < Val(call.input[j].score)
                    => FLeq(call.out.scores[i], call.out.scores[j])

C10_FailuresContained ==
    /\ ~call.out.raised
    /\ (Called /\ call.out.error # "none")
          => /\ call.out.path = "failed"
             /\ Urls(call.out.results) = Urls(call.input)
             /\ Len(call.out.results) = Len(call.input)
             /\ ~call.out.metadata.used_ml

\* feature extraction failed on a list of several documents
C10_Witness ==
    /\ Called /\ call.out.error = "extract"
    /\ Len(call.input) >= 2
    /\ ~Extractable(call.input, call.query)
    /\ call.out.path = "failed"

(***************************************************************************)
(* Properties of ResultsCache                                              *)
(***************************************************************************)
\* thread t has returned from a retrieve call
Retrieved(t) == thr[t].op = "retrieve" /\ thr[t].pc = "idle" /\ ~thr[t].raised

\* C2: retrieve returns the stored list only when now - stored_time <= ttl
\* (an entry aged exactly ttl is returned); when the age exceeds ttl it
\* returns absent, deletes the entry and the entry count drops by one.
C2_RetrieveTtl ==
    \A t \in Threads :
        Retrieved(t) =>
            /\ thr[t].ret # NoneV => (thr[t].age >= 0 /\ thr[t].age <= ttl_seconds)
            /\ (thr[t].age >= 0 /\ thr[t].age <= ttl_seconds) => thr[t].ret # NoneV
            /\ thr[t].age > ttl_seconds
                  => /\ thr[t].ret = NoneV
                     /\ thr[t].sizeAfter = thr[t].sizeBefore - 1

\* one retrieve returned an entry aged exactly ttl, another found an entry
\* older than ttl and removed it
C2_Witness ==
    \E t, u \in Threads :
        /\ Retrieved(t) /\ thr[t].age = ttl_seconds /\ thr[t].ret # NoneV
        /\ Retrieved(u) /\ thr[u].age > ttl_seconds /\ thr[u].ret = NoneV
        /\ thr[u].sizeBefore = 2 /\ thr[u].sizeAfter = 1

\* C3: a retrieve that returns a list returns the list of the most recent
\* store to that key, read from the entry that store stamped, and a retrieve
\* made within ttl of the most recent store to its key returns that list.
C3_StoreOverwrites ==
    \A t \in Threads :
        Retrieved(t) =>
            /\ thr[t].ret # NoneV
                  => /\ thr[t].ret = thr[t].latest
                     /\ thr[t].age = thr[t].since
            /\ (thr[t].latest # NoneV /\ thr[t].since <= ttl_seconds)
                  => thr[t].ret = thr[t].latest

\* a retrieve returned, some time after it was stored, the list of a store
\* that replaced an earlier entry
C3_Witness ==
    \E t \in Threads :
        /\ Retrieved(t) /\ thr[t].ret # NoneV
        /\ thr[t].replaced /\ thr[t].since > 0

\* thread t is inside a `with self._lock` body
InBody(t) == thr[t].pc \notin {"idle", "lock"}

\* C4: under any interleaving of store, retrieve and get_stats calls every
\* method body runs alone and under the lock: no two bodies overlap, the
\* entry a retrieve looked up stays in the map unchanged until it returns,
\* the entries a sweep found are still there when it deletes them, and no
\* delete fails.
C4_Serialized ==
    /\ \A t, u \in Threads : (InBody(t) /\ InBody(u)) => t = u
    /\ \A t \in Threads : InBody(t) => lockOwner = t
    /\ keyErrors = 0
    /\ \A t \in Threads :
          /\ ~thr[t].raised
          /\ thr[t].pc \in {"check", "expire"}
                => /\ thr[t].cid \in DOMAIN cache
                   /\ cache[thr[t].cid] = thr[t].entry
          /\ thr[t].pc = "delete" => thr[t].expired \subseteq DOMAIN cache

\* a retrieve is about to delete an expired entry while another retrieve of
\* the same key waits for the lock
C4_Witness ==
    \E t, u \in Threads :
        /\ t # u
        /\ thr[t].op = "retrieve" /\ thr[t].pc = "expire"
        /\ thr[u].op = "retrieve" /\ thr[u].pc = "lock"
        /\ thr[u].cid = thr[t].cid

(***************************************************************************)
(* Properties of MMRReranker                                               *)
(***************************************************************************)
MMRCalled == mmrCall.called

\* the documents of a list that carry an embedding, in list order
Embedded(docs) == SelectSeq(docs, HasVector)

\* C11: whenever rerank is given more than 3 embedded documents, in any
\* order, the first returned document has the maximum relevance score among
\* the embedded documents.
C11_RelevanceFloor ==
    (MMRCalled /\ Len(Embedded(mmrCall.input)) > 3)
        => /\ mmrCall.out.results # <<>>
           /\ \A i \in 1..Len(Embedded(mmrCall.input)) :
                  Score(Embedded(mmrCall.input)[i]) <= Score(mmrCall.out.results[1])

\* C12: with at most 3 embedded documents rerank returns the first top_k
\* documents of the input, in input order and unchanged, and as many scores,
\* all 0.0.
C12_SkipRule ==
    (MMRCalled /\ Len(Embedded(mmrCall.input)) <= 3)
        => /\ mmrCall.out.results = Take(mmrCall.input, mmrCall.top_k)
           /\ Len(mmrCall.out.scores) = Len(mmrCall.out.results)
           /\ \A i \in 1..Len(mmrCall.out.scores) : mmrCall.out.scores[i] = FZero
           /\ ~mmrCall.out.raised

\* a call with exactly 3 embedded documents among 4 and top_k = 2 returned
\* the first two documents
C12_Witness ==
    /\ MMRCalled
    /\ Len(Embedded(mmrCall.input)) = 3 /\ Len(mmrCall.input) = 4
    /\ mmrCall.top_k = 2
    /\ mmrCall.out.results = SubSeq(mmrCall.input, 1, 2)
    /\ mmrCall.out.scores = <<FZero, FZero>>

\* positions of docs in descending score order, equal scores in list order
StableDescOrder(docs) ==
    LET n == Len(docs)
        before(i, j) == Score(docs[i]) > Score(docs[j])
                        \/ (Score(docs[i]) = Score(docs[j]) /\ i < j)
    IN  [k \in 1..n |->
            CHOOSE i \in 1..n : Cardinality({j \in 1..n : before(j, i)}) = k - 1]

\* C13: with lambda = 1.0 configured, more than 3 embedded documents and any
\* query, the embedded documents are selected in descending relevance order,
\* ties in input order.
C13_PureRelevance ==
    (MMRCalled /\ mmrCall.self.configured = FOne
        /\ Len(Embedded(mmrCall.input)) > 3)
        => mmrCall.out.order
              = Take(StableDescOrder(Embedded(mmrCall.input)), Len(mmrCall.out.order))

Names(docs) == [i \in 1..Len(docs) |-> docs[i].name]

\* x2 and x3 are both returned with another document between them
Separated(names) ==
    \E i, k, j \in 1..Len(names) :
        /\ i < k /\ k < j
        /\ {names[i], names[j]} = {"x2", "x3"}
        /\ names[k] \notin {"x2", "x3"}

\* C14: on the five example documents with lambda = 0.7 and top_k = 5, x1 is
\* returned first, x2 and x3 do not both occupy positions 2 and 3, a
\* dissimilar document lies between them, and all five are returned.
C14_Example ==
    (MMRCalled /\ mmrCall.input = ExampleDocs
        /\ mmrCall.self.lambda_param = <<7, 10>> /\ mmrCall.top_k = 5)
        => LET names == Names(mmrCall.out.results)
           IN  /\ Len(names) = 5
               /\ {names[i] : i \in 1..5} = {"x1", "x2", "x3", "x4", "x5"}
               /\ names[1] = "x1"
               /\ {names[2], names[3]} # {"x2", "x3"}
               /\ Separated(names)

\* the example was run with the default lambda and selected x1, x2, x4, x3, x5
C14_Witness ==
    /\ MMRCalled /\ mmrCall.input = ExampleDocs
    /\ mmrCall.self.configured = <<7, 10>> /\ mmrCall.self.lambda_param = <<7, 10>>
    /\ mmrCall.top_k = 5
    /\ Names(mmrCall.out.results) = <<"x1", "x2", "x4", "x3", "x5">>

\* C15: rerank returns at most top_k documents and exactly as many scores;
\* an empty input gives an empty document list and an empty score list.
C15_OutputShape ==
    MMRCalled
        => /\ Len(mmrCall.out.results) <= mmrCall.top_k
           /\ Len(mmrCall.out.scores) = Len(mmrCall.out.results)
           /\ mmrCall.input = <<>>
                 => (mmrCall.out.results = <<>> /\ mmrCall.out.scores = <<>>)

\* two embedded documents of the list have embeddings of different length
MixedDimensions(docs) ==
    \E i, j \in 1..Len(docs) :
        Len(Val(docs[i].vector)) # Len(Val(docs[j].vector))

\* C16: when the selection compares embeddings of different dimensions,
\* rerank reports an error instead of returning a result.
C16_MismatchReported ==
    (MMRCalled /\ ~mmrCall.out.skipped /\ mmrCall.top_k >= 2
        /\ MixedDimensions(Embedded(mmrCall.input)))
        => mmrCall.out.raised

(***************************************************************************)
(* Properties of feature extraction and of the shadow metrics              *)
(***************************************************************************)
\* the call reached extract_features
Extracted == Called /\ call.self.enabled /\ ~SkipsML(call.self)

\* C17: feature extraction never raises and yields 29 values per document,
\* whatever is missing, empty or null in the query and the documents.
C17_ExtractionTotal ==
    Extracted
        => LET f == extract_features(call.input, call.query, call.env.today)
           IN  /\ ~f.raised
               /\ Len(f.rows) = Len(call.input)
               /\ \A i \in 1..Len(f.rows) : Len(f.rows[i]) = 29
               /\ call.out.error # "extract"

\* C18: extracting the features of the same query and documents on two
\* different days gives the same result.
C18_ExtractionDeterministic ==
    Extracted
        => \A d1, d2 \in Days :
               extract_features(call.input, call.query, d1)
                  = extract_features(call.input, call.query, d2)

\* C19: when the predicted order of a non-empty list is its given order, the
\* shadow metrics report rank_correlation 1.0 and avg_position_change 0.0.
C19_IdenticalOrderings ==
    (Called /\ call.out.path = "shadow" /\ Len(call.input) >= 1
        /\ call.env.order = Identity(Len(call.input)))
        => /\ call.out.metadata.metrics # NoneV
           /\ Val(call.out.metadata.metrics).rank_correlation = FOne
           /\ Val(call.out.metadata.metrics).avg_position_change = FZero

(***************************************************************************)
(* Properties of cached list objects                                       *)
(***************************************************************************)
\* C20: an entry that a step neither deletes nor replaces keeps the
\* documents of its list unchanged in that step.
C20_EntriesImmutable ==
    [][\A c \in CacheKeys :
          (c \in DOMAIN cache /\ c \in DOMAIN cache' /\ cache'[c] = cache[c])
              => heap'[cache[c].final_ranked_answers]
                    = heap[cache[c].final_ranked_answers]]_vars

(***************************************************************************)
(* Properties of the feature vector layout                                 *)
(***************************************************************************)
\* training/feature_engineering.py: the FEATURE_IDX_* constants, named by
\* the dictionary key of the feature they index
FEATURE_IDX ==
    [query_length |-> 0, word_count |-> 1, has_quotes |-> 2, has_numbers |-> 3,
     has_question_words |-> 4, keyword_count |-> 5,
     doc_length |-> 6, recency_days |-> 7, has_author |-> 8,
     has_publication_date |-> 9, schema_completeness |-> 10, title_length |-> 11,
     description_length |-> 12, url_length |-> 13,
     vector_similarity_score |-> 14, bm25_score |-> 15, keyword_boost |-> 16,
     temporal_boost |-> 17, final_retrieval_score |-> 18,
     keyword_overlap_ratio |-> 19, title_exact_match |-> 20,
     retrieval_position |-> 21, ranking_position |-> 22, llm_final_score |-> 23,
     relative_score_to_top |-> 24, score_percentile |-> 25, position_change |-> 26,
     mmr_diversity_score |-> 27, detected_intent |-> 28]

\* extract_features: the keys in the order the feature_vector list names them
FeatureOrder ==
    << "query_length", "word_count", "has_quotes", "has_numbers",
       "has_question_words", "keyword_count",
       "doc_length", "recency_days", "has_author", "has_publication_date",
       "schema_completeness", "title_length", "description_length", "url_length",
       "vector_similarity_score", "bm25_score", "keyword_boost", "temporal_boost",
       "final_retrieval_score", "keyword_overlap_ratio", "title_exact_match",
       "retrieval_position", "ranking_position", "llm_final_score",
       "relative_score_to_top", "score_percentile", "position_change",
       "mmr_diversity_score", "detected_intent" >>

\* the keys of the dictionaries the five extractors return
QueryKeys == {"query_length", "word_count", "has_quotes", "has_numbers",
              "has_question_words", "keyword_count"}
DocumentKeys == {"doc_length", "recency_days", "has_author", "has_publication_date",
                 "schema_completeness", "title_length", "description_length",
                 "url_length"}
QueryDocKeys == {"vector_similarity_score", "bm25_score", "keyword_boost",
                 "temporal_boost", "final_retrieval_score", "keyword_overlap_ratio",
                 "title_exact_match"}
RankingKeys == {"retrieval_position", "ranking_position", "llm_final_score",
                "relative_score_to_top", "score_percentile", "position_change"}
MMRKeys == {"mmr_diversity_score", "detected_intent"}

Block(from, to) == {FeatureOrder[k] : k \in from..to}

\* every constant is the 0-based position of its key, in five blocks
LayoutFixed ==
    /\ Len(FeatureOrder) = TOTAL_FEATURES_PHASE_A
    /\ DOMAIN FEATURE_IDX = Block(1, Len(FeatureOrder))
    /\ \A k \in 1..Len(FeatureOrder) : FEATURE_IDX[FeatureOrder[k]] = k - 1
    /\ Block(1, 6) = QueryKeys
    /\ Block(7, 14) = DocumentKeys
    /\ Block(15, 21) = QueryDocKeys
    /\ Block(22, 27) = RankingKeys
    /\ Block(28, 29) = MMRKeys
    /\ FEATURE_IDX_LLM_FINAL_SCORE = FEATURE_IDX.llm_final_score

\* the entry of a row that the constant for key names
At(row, key) == row[FEATURE_IDX[key] + 1]

\* C21: every extracted vector has TOTAL_FEATURES_PHASE_A = 29 entries in the
\* blocks query, document, query-document, ranking, diversity; each
\* FEATURE_IDX constant is the position its feature is written to; the
\* column the fallback prediction reads holds the documents' relevance scores.
C21_LayoutFixed ==
    /\ LayoutFixed
    /\ Extracted
          => LET f == extract_features(call.input, call.query, call.env.today)
                 q == extract_query_features(call.query)
             IN  ~f.raised =>
                   /\ Column(f.rows, FEATURE_IDX_LLM_FINAL_SCORE)
                         = [i \in 1..Len(call.input) |-> FInt(Val(call.input[i].score))]
                   /\ \A i \in 1..Len(call.input) :
                        LET row == f.rows[i]
                            d == call.input[i]
                        IN  /\ Len(row) = TOTAL_FEATURES_PHASE_A
                            /\ \A k \in 1..6 : row[k] = q[k]
                            /\ At(row, "query_length") = FInt(TextLen(Val(call.query)))
                            /\ At(row, "recency_days")
                                  = FInt(IF TruthyStr(d.published_date)
                                         THEN RecencyDays(d.published_date, call.env.today)
                                         ELSE MISSING_RECENCY_DAYS)
                            /\ At(row, "has_author") = FInt(Bool01(TruthyStr(d.author)))
                            /\ At(row, "url_length") = FInt(UrlLen(d.url))
                            /\ At(row, "vector_similarity_score")
                                  = FInt(d.retrieval_scores.vector_score)
                            /\ At(row, "ranking_position") = FInt(i - 1)
                            /\ At(row, "llm_final_score") = FInt(Val(d.score))
                            /\ At(row, "position_change")
                                  = FSub(At(row, "retrieval_position"), FInt(i - 1))
                            /\ At(row, "detected_intent") = FInt(2)

\* two documents with different scores were extracted and scored from
\* column 23
C21_Witness ==
    /\ Extracted /\ Len(call.input) = 2
    /\ call.input[1].score # call.input[2].score
    /\ call.out.path = "shadow"
    /\ call.out.scores[1] # call.out.scores[2]

(***************************************************************************)
(* Properties of the sweep and of the reads of ResultsCache                *)
(***************************************************************************)
\* the step in which thread t returns from store
StoreReturns(t) ==
    /\ thr[t].op = "store" /\ thr[t].pc \in {"scan", "delete"}
    /\ thr'[t].pc = "idle" /\ ~thr'[t].raised

\* the current_time of the sweep of the store that t is returning from
SweepTime(t) == IF thr[t].pc = "scan" THEN now ELSE thr[t].current_time

\* no entry that was older than ttl at the sweep is left in the map
SweptClean(t) ==
    \A c \in DOMAIN cache' : SweepTime(t) - cache'[c].timestamp <= ttl_seconds

\* C26 as stated: when store returns, no entry older than ttl at the time of
\* the sweep is in the map, and the entry just stored is present.
C26_StoreSweeps ==
    [][\A t \in Threads :
          StoreReturns(t) => (SweptClean(t) /\ thr[t].cid \in DOMAIN cache')]_vars

\* C26 amended: when store returns, no entry older than ttl at the time of
\* the sweep is in the map; the entry just stored is present, unchanged,
\* exactly when no more than ttl passed between its stamp and the sweep.
C26_StoreSweepsLive ==
    [][\A t \in Threads :
          StoreReturns(t) =>
              LET stored == Val(lastStore[thr[t].cid]).entry
              IN  /\ SweptClean(t)
                  /\ (SweepTime(t) - stored.timestamp <= ttl_seconds)
                        <=> thr[t].cid \in DOMAIN cache'
                  /\ thr[t].cid \in DOMAIN cache' => cache'[thr[t].cid] = stored]_vars

\* a store has returned after its sweep removed the expired entry of the
\* other conversation; the entry it stored is in the map
C26_Witness ==
    \E t \in Threads, c \in CacheKeys :
        /\ thr[t].op = "store" /\ thr[t].pc = "idle" /\ ~thr[t].raised
        /\ thr[t].sizeBefore = 2 /\ thr[t].sizeAfter = 1
        /\ c \in DOMAIN cache /\ cache[c] = Val(lastStore[c]).entry

\* thread t takes a step of the call op it is in
StepOf(t, op) == thr[t].op = op /\ thr[t].pc # "idle" /\ thr'[t] # thr[t]

\* the map after the step is the map before it without key c
OnlyRemoved(c) ==
    /\ DOMAIN cache' = DOMAIN cache \ {c}
    /\ \A x \in DOMAIN cache' : cache'[x] = cache[x]

\* every entry in the map carries the stamp of the latest store to its key
StampedAtStore ==
    \A c \in DOMAIN cache :
        lastStore[c] # NoneV /\ cache[c].timestamp = Val(lastStore[c]).entry.timestamp

\* C29: retrieve and get_stats are non-destructive reads. No step of a
\* retrieve changes the map, except the deletion after an expired entry was
\* found, which removes the entry of the retrieved key and nothing else; an
\* entry keeps the stamp of its store however often it is read; get_stats
\* changes nothing and counts every entry in the map, expired or not.
C29_ReadsNonDestructive ==
    /\ []StampedAtStore
    /\ [][\A t \in Threads :
             /\ StepOf(t, "retrieve") =>
                   IF thr[t].pc = "expire" /\ ~thr'[t].raised
                   THEN OnlyRemoved(thr[t].cid)
                   ELSE cache' = cache
             /\ StepOf(t, "get_stats") =>
                   /\ cache' = cache
                   /\ thr[t].pc = "stats" =>
                         thr'[t].stats.total_entries = Cardinality(DOMAIN cache)]_vars

\* the only caller so far has retrieved an expired entry: the entry is gone
\* and the entry of the other key, which was expired too at that time, is
\* still in the map
C29_Witness ==
    \E t \in Threads, c \in CacheKeys, c2 \in CacheKeys :
        /\ Retrieved(t) /\ thr[t].ret = NoneV /\ thr[t].age > ttl_seconds
        /\ \A u \in Threads \ {t} : thr[u].op = "none"
        /\ thr[t].sizeBefore = 2 /\ thr[t].sizeAfter = 1
        /\ c \notin DOMAIN cache /\ lastStore[c] # NoneV
        /\ c2 \in DOMAIN cache
        /\ Val(lastStore[c]).entry.timestamp + thr[t].age - cache[c2].timestamp
              > ttl_seconds

\* the entry of c is in the map although its ttl has elapsed
Overdue(c) == c \in DOMAIN cache /\ now - cache[c].timestamp > ttl_seconds

\* C22: every cache entry is eventually deleted once its ttl has elapsed,
\* whether or not its key is accessed again.
C22_EventuallyDeleted == \A c \in CacheKeys : Overdue(c) ~> ~Overdue(c)

(***************************************************************************)
(* Properties of the greedy selection of MMRReranker                       *)
(***************************************************************************)
\* relevance of candidate i, min-max normalised over the candidates
NormalisedRelevance(cands, i) ==
    LET all == {Score(cands[j]) : j \in 1..Len(cands)}
        hi == CHOOSE x \in all : \A y \in all : y <= x
        lo == CHOOSE x \in all : \A y \in all : x <= y
    IN  Frac(Score(cands[i]) - lo, IF hi = lo THEN 1 ELSE hi - lo)

\* the largest clamped cosine of candidate i to a candidate selected before
MaxCosine(cands, i, prev) ==
    LET sims == {cosine_similarity(Val(cands[i].vector), Val(cands[prev[k]].vector)) :
                    k \in 1..Len(prev)}
    IN  CHOOSE x \in sims : \A y \in sims : FLeq(y, x)

\* lambda * normalised relevance - (1 - lambda) * maximum similarity
MMRValue(lambda_param, cands, i, prev) ==
    FSub(FMul(lambda_param, NormalisedRelevance(cands, i)),
         FMul(FSub(FOne, lambda_param), MaxCosine(cands, i, prev)))

\* the candidates not selected before slot k
OpenAt(cands, order, k) ==
    {i \in 1..Len(cands) : \A m \in 1..(k - 1) : order[m] # i}

\* a reranking that went through the greedy selection
Greedy == MMRCalled /\ Len(Embedded(mmrCall.input)) > 3

\* C23: after the first selection every slot holds the not yet selected
\* embedded document with the largest lambda * normalised relevance -
\* (1 - lambda) * maximum clamped cosine to the documents selected before;
\* among several with the largest value it holds the earliest of the input;
\* the value is the slot's selection score.
C23_GreedyStep ==
    Greedy =>
        LET cands == Embedded(mmrCall.input)
            order == mmrCall.out.order
            lambda_param == mmrCall.self.lambda_param
        IN  \A k \in 2..Len(order) :
                LET prev == SubSeq(order, 1, k - 1)
                    open == OpenAt(cands, order, k)
                    best == MMRValue(lambda_param, cands, order[k], prev)
                IN  /\ order[k] \in open
                    /\ \A j \in open :
                          LET v == MMRValue(lambda_param, cands, j, prev)
                          IN  FLeq(v, best) /\ (v = best => order[k] <= j)
                    /\ mmrCall.out.results[k] = cands[order[k]]
                    /\ mmrCall.out.scores[k] = best

\* a slot after the first was filled while a later candidate had the same
\* value as the selected one, and a slot was filled with a candidate that
\* does not have the highest relevance among the open ones
C23_Witness ==
    /\ Greedy
    /\ LET cands == Embedded(mmrCall.input)
           order == mmrCall.out.order
           lambda_param == mmrCall.self.lambda_param
       IN  /\ \E k \in 2..Len(order) :
                 \E j \in OpenAt(cands, order, k) :
                    /\ j > order[k]
                    /\ MMRValue(lambda_param, cands, j, SubSeq(order, 1, k - 1))
                         = MMRValue(lambda_param, cands, order[k], SubSeq(order, 1, k - 1))
           /\ \E k \in 2..Len(order) :
                 \E j \in OpenAt(cands, order, k) :
                    Score(cands[j]) > Score(cands[order[k]])

\* how many of the cues occur in the query
CueCount(cues, query) == Cardinality({c \in cues : IsSubstring(c, query)})

\* C24: the weight of a constructed re-ranker is decided by its query: 0.8
\* and SPECIFIC with more specific than exploratory cues, 0.5 and EXPLORATORY
\* with more exploratory cues, the configured value and BALANCED with equal
\* counts or an empty query; a rerank call works with that weight.
C24_LambdaFromIntent ==
    /\ mmr.pc = "ready" =>
          LET specific == CueCount(specific_indicators, mmr.query)
              exploratory == CueCount(exploratory_indicators, mmr.query)
          IN  /\ specific > exploratory =>
                    (mmr.lambda_param = <<4, 5>> /\ mmr.detected_intent = "SPECIFIC")
              /\ exploratory > specific =>
                    (mmr.lambda_param = <<1, 2>> /\ mmr.detected_intent = "EXPLORATORY")
              /\ (specific = exploratory \/ mmr.query = <<>>) =>
                    (mmr.lambda_param = mmr.configured
                       /\ mmr.detected_intent = "BALANCED")
    /\ MMRCalled => mmrCall.self = mmr

\* a re-ranker configured with lambda 1.0 was built for a how-to query and
\* has run the greedy selection with 0.8
C24_Witness ==
    /\ Greedy
    /\ mmrCall.self.configured = FOne
    /\ CueCount(specific_indicators, mmrCall.self.query) = 1
    /\ CueCount(exploratory_indicators, mmrCall.self.query) = 0
    /\ mmrCall.self.lambda_param = <<4, 5>>
    /\ mmrCall.self.detected_intent = "SPECIFIC"

\* the documents of a list without an embedding, in list order
NotEmbedded(docs) == SelectSeq(docs, LAMBDA r : ~HasVector(r))

\* C25: when more than 3 documents have embeddings and top_k exceeds their
\* number, the selected embedded documents are followed by the documents
\* without an embedding, in input order, up to top_k documents in total, and
\* each of these has selection score 0.0.
C25_FillWithNonVector ==
    (Greedy /\ mmrCall.top_k > Len(Embedded(mmrCall.input))) =>
        LET n == Len(Embedded(mmrCall.input))
            rest == NotEmbedded(mmrCall.input)
            m == IF mmrCall.top_k - n < Len(rest) THEN mmrCall.top_k - n ELSE Len(rest)
        IN  /\ Len(mmrCall.out.results) = n + m
            /\ Len(mmrCall.out.scores) = n + m
            /\ \A i \in 1..n : HasVector(mmrCall.out.results[i])
            /\ \A i \in 1..m : /\ mmrCall.out.results[n + i] = rest[i]
                               /\ mmrCall.out.scores[n + i] = FZero

\* of two documents without an embedding, both standing before the last
\* embedded document of the input, top_k = 5 let only the first one in,
\* after the four embedded documents
C25_Witness ==
    /\ Greedy /\ mmrCall.top_k = 5
    /\ Len(Embedded(mmrCall.input)) = 4 /\ Len(NotEmbedded(mmrCall.input)) = 2
    /\ HasVector(mmrCall.input[6])
    /\ Len(mmrCall.out.results) = 5
    /\ mmrCall.out.results[5] = NotEmbedded(mmrCall.input)[1]
    /\ mmrCall.out.scores[5] = FZero

\* how often document d occurs in a list
Occurrences(docs, d) == Cardinality({i \in 1..Len(docs) : docs[i] = d})

\* C28: rerank never duplicates or invents documents: no document occurs in
\* the output more often than in the input; with top_k >= len(input) the
\* output is a permutation of the input.
C28_NoDocumentLost ==
    MMRCalled =>
        LET input == mmrCall.input
            output == mmrCall.out.results
        IN  /\ \A i \in 1..Len(output) :
                  Occurrences(output, output[i]) <= Occurrences(input, output[i])
            /\ mmrCall.top_k >= Len(input) =>
                  /\ Len(output) = Len(input)
                  /\ \A i \in 1..Len(input) :
                        Occurrences(output, input[i]) = Occurrences(input, input[i])

\* the greedy selection ran with top_k = len(input) on a list holding a
\* document without an embedding and returned the documents in another order
C28_Witness ==
    /\ Greedy
    /\ mmrCall.top_k = Len(mmrCall.input)
    /\ NotEmbedded(mmrCall.input) # <<>>
    /\ Len(mmrCall.out.results) = Len(mmrCall.input)
    /\ mmrCall.out.results # mmrCall.input

(***************************************************************************)
(* Frame of XGBoostRanker.rerank                                           *)
(***************************************************************************)
\* two lists hold the same elements the same number of times
IsPermutation(s, t) ==
    /\ Len(s) = Len(t)
    /\ \A i \in 1..Len(t) : Occurrences(s, t[i]) = Occurrences(t, t[i])

\* C30: in every mode and on every error path rerank returns a permutation
\* of its input with num_results = len(input) and shadow_mode = the
\* instance's use_shadow_mode; a rerank call leaves the instances (enabled,
\* use_shadow_mode, model) and the process-wide model cache as they were.
C30_RerankFrame ==
    /\ [](Called =>
            /\ ~call.out.raised
            /\ IsPermutation(Urls(call.out.results), Urls(call.input))
            /\ call.out.metadata.num_results = Len(call.input)
            /\ call.out.metadata.shadow_mode = call.self.use_shadow_mode
            /\ ranker[call.r] = call.self)
    /\ [][call' # call => (ranker' = ranker /\ MODEL_CACHE' = MODEL_CACHE)]_vars

\* a shadow-mode call on several documents failed after the predictions
\* were made, and returned the input with the metadata of the instance
C30_Witness ==
    /\ Called /\ call.out.path = "failed" /\ call.out.error = "get_logger"
    /\ call.self.use_shadow_mode /\ call.out.metadata.shadow_mode
    /\ Len(call.input) >= 2 /\ call.out.metadata.num_results = Len(call.input)
    /\ call.out.results = call.input
    /\ ranker[call.r] = call.self

(***************************************************************************)
(* Properties of the comparison metrics                                    *)
(***************************************************************************)
\* the urls of the first k documents of a list taken in the given order
TopUrls(docs, order, k) == {docs[order[i]].url : i \in 1..k}

\* C27: the top-K overlap is |primary top-K urls \cap secondary top-K urls| / K
\* with K = min(10, n), the secondary ranking being the input in descending
\* order of predicted score; it lies in [0,1] and is 1.0 for a list of at
\* most 10 documents with unique urls.
C27_TopKOverlap ==
    metricsCall.called =>
        LET docs == metricsCall.ranking_results
            n == Len(docs)
            K == IF n < 10 THEN n ELSE 10
            order == metricsCall.order
            scores == metricsCall.xgboost_scores
            primary == TopUrls(docs, Identity(n), K)
            secondary == TopUrls(docs, order, K)
            overlap == metricsCall.out.top10_overlap
        IN  /\ \A i, j \in 1..n : i < j => FLeq(scores[order[j]], scores[order[i]])
            /\ overlap = Frac(Cardinality(primary \cap secondary), K)
            /\ FLeq(FZero, overlap) /\ FLeq(overlap, FOne)
            /\ n <= 10 => overlap = FOne

\* on 11 documents the predicted order was the reverse of the given one:
\* 9 of the 10 first urls are on both sides
C27_Witness ==
    /\ metricsCall.called
    /\ Len(metricsCall.ranking_results) = 11
    /\ metricsCall.order = Reversal(11)
    /\ metricsCall.out.top10_overlap = <<9, 10>>

=============================================================================
